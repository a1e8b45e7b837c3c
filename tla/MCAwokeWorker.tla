--------------------------- MODULE MCAwokeWorker ---------------------------
(***************************************************************************)
(* Model values for AwokeWorker: the feature masks the applications use    *)
(* (benchmark.c, unix_sock_with_python.c, bk_epc.c, client.c) and the      *)
(* one-shot workers the interface allows.                                    *)
(***************************************************************************)
EXTENDS AwokeWorker

MCFeatureSets ==
    { {"PERIODICITY", "SUSPEND"},                    \* benchmark, timer worker
      {"PERIODICITY", "SUSPEND", "CUSTOM_DEFINE"},   \* unix_sock_with_python
      {"CUSTOM_DEFINE"},                             \* autofocus, epc, reactor
      {"REFERENCE", "PIPE_CHANNEL"},                 \* one-shot, counted
      {"SUSPEND"} }                                  \* one-shot, suspendable

MCTimerFeatureSets == { {"PERIODICITY", "SUSPEND"} }

=============================================================================
