----------------------------- MODULE TraceEvents -----------------------------
(***************************************************************************)
(* The trace events of one run of the process (TraceEvent,                 *)
(* internal/platform/types.go): what TraceWriter stores is what EventSink  *)
(* publishes.                                                              *)
(***************************************************************************)
EXTENDS Naturals, FiniteSets

CONSTANT Events

ASSUME EventsAssumption == IsFiniteSet(Events)
=============================================================================
