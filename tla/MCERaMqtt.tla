----------------------------- MODULE MCERaMqtt -----------------------------
(* Configurations of ERaMqtt for TLC.                                      *)
EXTENDS ERaMqtt

Config(nonBlocking, skipAck, askConfig, handlerPublishes, apiTask) ==
    [nonBlocking |-> nonBlocking, skipAck |-> skipAck, askConfig |-> askConfig,
     handlerPublishes |-> handlerPublishes, apiTask |-> apiTask]

\* The default; a non-blocking one with an api task; one that waits for the
\* acknowledgement of its publishes, which its handlers must not do; the same
\* with an api task, whose wait shares the connection with loop().
SafeConfigs == {Config(FALSE, TRUE, TRUE, TRUE, FALSE),
                Config(TRUE, TRUE, TRUE, TRUE, TRUE),
                Config(FALSE, FALSE, TRUE, FALSE, FALSE),
                Config(FALSE, FALSE, FALSE, FALSE, TRUE)}

\* Acknowledged publishes, and handlers that publish.
UnsafeConfigs == {Config(FALSE, FALSE, FALSE, TRUE, FALSE)}
=============================================================================
