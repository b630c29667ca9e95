---------------------------- MODULE LayoutService ----------------------------
(***************************************************************************)
(* What LayoutCache::getOrCreate(text, range, paint, ..., f) promises to   *)
(* its callers (Layout.cpp, LayoutPieces.h, MeasuredText.cpp), whatever is *)
(* cached and whichever other threads call it: f is called exactly once,   *)
(* with a layout of what was asked for, before the call returns.           *)
(***************************************************************************)
EXTENDS Sequences

CONSTANTS Thread,
          Key,
          NoKey     \* not a key: the thread is outside a call

VARIABLES key,      \* what each thread asked for, NoKey outside a call
          served    \* the layouts given to f during the call

vars == <<key, served>>

Init ==
  /\ key = [t \in Thread |-> NoKey]
  /\ served = [t \in Thread |-> << >>]

Call(t, k) ==
  /\ key[t] = NoKey
  /\ key' = [key EXCEPT ![t] = k]
  /\ UNCHANGED served

Serve(t) ==
  /\ key[t] # NoKey /\ served[t] = << >>
  /\ served' = [served EXCEPT ![t] = <<key[t]>>]
  /\ UNCHANGED key

Return(t) ==
  /\ key[t] # NoKey /\ served[t] = <<key[t]>>
  /\ key' = [key EXCEPT ![t] = NoKey]
  /\ served' = [served EXCEPT ![t] = << >>]

Next == \E t \in Thread : (\E k \in Key : Call(t, k)) \/ Serve(t) \/ Return(t)

Spec == Init /\ [][Next]_vars

=============================================================================
