--------------------------- MODULE RecoveryStartup ---------------------------
(***************************************************************************)
(* PrimaryRecovery with one history variable, for what the documents say   *)
(* about a role process that ends before Ready.                            *)
(***************************************************************************)
EXTENDS PrimaryRecovery

VARIABLE exited_before_ready  \* history: the role process ended before Ready

StartupInit == Init /\ exited_before_ready = FALSE

StartupNext ==
  /\ Next
  /\ exited_before_ready' =
       (exited_before_ready \/ (child = "alive" /\ child' # "alive" /\ ~window_ready))

StartupSpec == StartupInit /\ [][StartupNext]_<<vars, exited_before_ready>>

\* docs/specs/kel96-no-flag-host-boot.md: "an exit before `Ready` is startup failure", so the
\* role that ended before Ready has no successor.
ExitBeforeReadyIsFinal == exited_before_ready => attempt = 1
=============================================================================
