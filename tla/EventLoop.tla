----------------------------- MODULE EventLoop -----------------------------
(***************************************************************************)
(* What io_driver.c promises to the callbacks it runs, without lists,      *)
(* descriptors or fd_sets.  It is the content of the comment in            *)
(* io_driver_postselect: in the round that follows a select,               *)
(*                                                                         *)
(*   - a watcher registered during the round waits for the next one,       *)
(*   - a watcher that is unregistered during the round is not called,      *)
(*     even if it is registered again at once,                             *)
(*   - every other watcher is called at most once, with the events that    *)
(*     select reported for it and that it still listens to.                *)
(***************************************************************************)
CONSTANTS Watchers, Events

VARIABLES
  listening,  \* [Watchers -> SUBSET Events]: what each watcher listens to
  offer,      \* [Watchers -> SUBSET Events]: what the round still has for it
  phase,      \* "app", "dispatch" or "callback"
  call        \* the events of the callback that is running, per watcher

vars == << listening, offer, phase, call >>

NoCall == [w \in Watchers |-> {}]

Init ==
  /\ listening = [w \in Watchers |-> {}]
  /\ offer = [w \in Watchers |-> {}]
  /\ phase = "app"
  /\ call = NoCall

Register(w, ev) ==
  /\ phase \in {"app", "callback"}
  /\ listening' = [listening EXCEPT ![w] = @ \cup ev]
  /\ UNCHANGED << offer, phase, call >>

\* Losing its last event costs a watcher what the round had for it.
Unregister(w, ev) ==
  /\ phase \in {"app", "callback"}
  /\ listening' = [listening EXCEPT ![w] = @ \ ev]
  /\ offer' = [offer EXCEPT ![w] = IF listening[w] \subseteq ev THEN {} ELSE @]
  /\ UNCHANGED << phase, call >>

\* A select reports some of the events asked for.
Round ==
  /\ phase = "app"
  /\ offer' \in [Watchers -> SUBSET Events]
  /\ \A w \in Watchers : offer'[w] \subseteq listening[w]
  /\ phase' = "dispatch"
  /\ UNCHANGED << listening, call >>

Call(w) ==
  /\ phase = "dispatch"
  /\ offer[w] \cap listening[w] # {}
  /\ call' = [call EXCEPT ![w] = offer[w] \cap listening[w]]
  /\ offer' = [offer EXCEPT ![w] = {}]
  /\ phase' = "callback"
  /\ UNCHANGED listening

\* Nothing the watcher still listens to was reported.
Skip(w) ==
  /\ phase = "dispatch"
  /\ offer[w] \cap listening[w] = {}
  /\ offer' = [offer EXCEPT ![w] = {}]
  /\ UNCHANGED << listening, phase, call >>

Return ==
  /\ phase = "callback"
  /\ phase' = "dispatch"
  /\ call' = NoCall
  /\ UNCHANGED << listening, offer >>

RoundOver ==
  /\ phase = "dispatch"
  /\ offer = [w \in Watchers |-> {}]
  /\ phase' = "app"
  /\ UNCHANGED << listening, offer, call >>

Next ==
  \/ \E w \in Watchers, ev \in SUBSET Events : Register(w, ev) \/ Unregister(w, ev)
  \/ Round
  \/ \E w \in Watchers : Call(w) \/ Skip(w)
  \/ Return
  \/ RoundOver

Spec == Init /\ [][Next]_vars
=============================================================================
