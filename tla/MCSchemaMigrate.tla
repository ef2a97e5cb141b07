---------------------------- MODULE MCSchemaMigrate ----------------------------
(***************************************************************************)
(* TLC instances of SchemaMigrate: the error-tracking chain in small, as   *)
(* 0001 (otel_traces), 0006 (error_events and its view) and 0023 (the view *)
(* dropped and created anew).                                              *)
(***************************************************************************)
EXTENDS SchemaMigrate, TLC

Create(o, d) == [op |-> "create", obj |-> o, def |-> d]
Drop(o) == [op |-> "drop", obj |-> o, def |-> "old"]

MCStatements ==
    1 :> <<Create("traces", "old")>> @@
    6 :> <<Create("errors", "old"), Create("view", "old")>> @@
    23 :> <<Drop("view"), Create("view", "new")>>
MCBaseOf == "view" :> "traces"
MCExpected == [p \in Procs |-> Versions]
===============================================================================
