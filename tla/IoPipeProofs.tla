---------------------------- MODULE IoPipeProofs ----------------------------
(* What io_pipe.c keeps true of its objects, their descriptors and the event *)
(* loop, for any objects, descriptors and children.                          *)
EXTENDS IoPipe, Lemmas

-----------------------------------------------------------------------------
(* Watchers and descriptors.                                                 *)

\* An object has two watchers, and a watcher is one object's.
LEMMA Names ==
  /\ \A p \in Pipes : rw(p) \in Watchers /\ tw(p) \in Watchers
  /\ \A p, q \in Pipes : rw(p) # tw(q) /\ (rw(p) = rw(q) => p = q) /\ (tw(p) = tw(q) => p = q)
  /\ \A w \in Watchers : \E p \in Pipes : w = rw(p) \/ w = tw(p)
BY IoPipeAssumption DEF rw, tw

\* The two ends the parent keeps
LEMMA EndNames ==
  /\ End[1] = "read" /\ End[4] = "write"
  /\ \A i \in 1..4 : End[i] \in { End[j] : j \in 1..4 }
BY DEF End

\* What the parent has open, entry by entry
LEMMA OpenIs ==
  ASSUME PipesOwned, NEW o
  PROVE  o \in open <=> \E p \in Pipes :
           /\ pipe[p].live
           /\ o = << fd[rw(p)], p, "read" >> \/ o = << fd[tw(p)], p, "write" >>
BY DEF PipesOwned

\* No two of the descriptors of live objects are the same.
LEMMA FdsApart ==
  ASSUME PipesOwned, EndsApart, NEW p \in Pipes, NEW q \in Pipes, pipe[p].live, pipe[q].live
  PROVE  /\ fd[rw(p)] # fd[tw(q)]
         /\ fd[rw(p)] = fd[rw(q)] => p = q
         /\ fd[tw(p)] = fd[tw(q)] => p = q
<1>1. /\ << fd[rw(p)], p, "read" >> \in open /\ << fd[tw(p)], p, "write" >> \in open
      /\ << fd[rw(q)], q, "read" >> \in open /\ << fd[tw(q)], q, "write" >> \in open
  BY OpenIs
<1>2. \A o1, o2 \in open : o1[1] = o2[1] => o1[2] = o2[2] /\ o1[3] = o2[3]
  BY DEF EndsApart
<1>3. fd[rw(p)] # fd[tw(q)]
  BY <1>1, <1>2
<1>4. fd[rw(p)] = fd[rw(q)] => p = q
  BY <1>1, <1>2
<1>5. fd[tw(p)] = fd[tw(q)] => p = q
  BY <1>1, <1>2
<1> QED BY <1>3, <1>4, <1>5

\* The parent never holds the end a child writes to, so its output has come
\* to the end when the child has closed it and all of it was read.
LEMMA AtEndIs ==
  ASSUME PipesOwned, NEW p \in Pipes
  PROVE  AtEnd(p) <=> child[p].st # "running" /\ child[p].out = 0
<1>1. \A f \in Fds : << f, p, "childs_output" >> \notin open
  BY OpenIs
<1> QED BY <1>1 DEF AtEnd

\* What select says of the descriptor of a live object is about its child.
LEMMA ReadableIsNews ==
  ASSUME PipesOwned, EndsApart, NEW p \in Pipes, pipe[p].live, Readable(fd[rw(p)])
  PROVE  HasNews(p)
<1>1. PICK q \in Pipes : /\ << fd[rw(p)], q, "read" >> \in open
                         /\ child[q].out > 0 \/ AtEnd(q)
  BY DEF Readable
<1>2. << fd[rw(p)], p, "read" >> \in open
  BY OpenIs
<1>3. q = p
  BY <1>1, <1>2 DEF EndsApart
<1> QED BY <1>1, <1>3, AtEndIs DEF HasNews

\* pipe() returns descriptors that were free, the first and the last of the
\* four different.
LEMMA NewEnds ==
  ASSUME Cardinality(Free) >= 4
  PROVE  Lowest(1) \in Free /\ Lowest(4) \in Free /\ Lowest(1) # Lowest(4)
<1> DEFINE Below(f) == { g \in Free : g < f }
           Down(T) == T \in SUBSET Free /\ \A t \in T, s \in Free : s < t => s \in T
<1>1. Free \in SUBSET Nat /\ IsFiniteSet(Free) /\ Cardinality(Free) \in Nat
  <2>1. Free \subseteq Fds
    BY DEF Free
  <2>2. IsFiniteSet(Free)
    BY <2>1, IoPipeAssumption, FS_Subset
  <2> QED BY <2>1, <2>2, IoPipeAssumption, FS_CardinalityType
<1>2. ASSUME NEW T, Down(T), Cardinality(T) < Cardinality(Free)
      PROVE  \E f \in Free : /\ Below(f) = T /\ Down(T \cup {f})
                             /\ Cardinality(T \cup {f}) = Cardinality(T) + 1
  <2>1. \E f \in Free \ T :
          /\ { g \in Free : g < f } = T
          /\ \A t \in T \cup {f}, s \in Free : s < t => s \in T \cup {f}
          /\ Cardinality(T \cup {f}) = Cardinality(T) + 1
    BY <1>1, <1>2, NextLowest
  <2> QED BY <2>1, <1>2
<1>3. Down({}) /\ Cardinality({}) = 0
  BY FS_EmptySet
<1> HIDE DEF Below, Down
<1>4. PICK f1 \in Free : /\ Below(f1) = {} /\ Down({} \cup {f1})
                         /\ Cardinality({} \cup {f1}) = 0 + 1
  BY <1>1, <1>2, <1>3
<1> DEFINE T1 == {} \cup {f1}
<1> HIDE DEF T1
<1>5. PICK f2 \in Free : /\ Down(T1 \cup {f2}) /\ Cardinality(T1 \cup {f2}) = 1 + 1
  <2>1. Down(T1) /\ Cardinality(T1) = 1
    BY <1>4 DEF T1
  <2> QED BY <2>1, <1>1, <1>2
<1> DEFINE T2 == T1 \cup {f2}
<1> HIDE DEF T2
<1>6. PICK f3 \in Free : /\ Down(T2 \cup {f3}) /\ Cardinality(T2 \cup {f3}) = 2 + 1
  <2>1. Down(T2) /\ Cardinality(T2) = 2
    BY <1>5 DEF T2
  <2> QED BY <2>1, <1>1, <1>2
<1> DEFINE T3 == T2 \cup {f3}
<1> HIDE DEF T3
<1>7. PICK f4 \in Free : Below(f4) = T3 /\ Cardinality(T3) = 3
  <2>1. Down(T3) /\ Cardinality(T3) = 3
    BY <1>6 DEF T3
  <2>2. Cardinality(T3) < Cardinality(Free)
    BY <2>1, <1>1
  <2>3. \E f \in Free : Below(f) = T3
    BY <2>1, <2>2, <1>2
  <2> QED BY <2>1, <2>3
<1>8. Lowest(1) \in Free /\ Cardinality(Below(Lowest(1))) = 0
  <2>1. Cardinality(Below(f1)) = 1 - 1
    BY <1>3, <1>4
  <2>2. Lowest(1) = CHOOSE f \in Free : Cardinality(Below(f)) = 1 - 1
    BY DEF Lowest, Below
  <2> QED BY <2>1, <2>2
<1>9. Lowest(4) \in Free /\ Cardinality(Below(Lowest(4))) = 3
  <2>1. Cardinality(Below(f4)) = 4 - 1
    BY <1>7
  <2>2. Lowest(4) = CHOOSE f \in Free : Cardinality(Below(f)) = 4 - 1
    BY DEF Lowest, Below
  <2> QED BY <2>1, <2>2
<1> QED BY <1>8, <1>9

-----------------------------------------------------------------------------
(* The two halves of the invariant: what does not speak of the handler that  *)
(* runs, and what does.                                                      *)

World ==
  /\ drv \in DriverType /\ ListsConsistent(drv)
  /\ fd \in [Watchers -> Fds] /\ sets \in [Events -> SUBSET Fds]
  /\ call \in [Watchers -> SUBSET Events]
  /\ pipe \in [Pipes -> [ live : BOOLEAN, driver : FreshDriver ]]
  /\ open \subseteq Fds \X Pipes \X { End[i] : i \in 1..4 }
  /\ child \in [Pipes -> ChildType]
  /\ \A p \in Pipes : child[p].st = "none" <=> ~pipe[p].live
  /\ EndsApart /\ PipesOwned /\ WatchedWhileLive /\ NewsHolds

Handling ==
  /\ phase \in {"app", "dispatch", "callback"} /\ frame \in FrameType
  /\ phase = "callback" <=> frame.at \in { "enter", "wait", "user" }
  /\ phase = "app" /\ frame.at = "none" => drv.run_list = EmptyList
  /\ FrameSound /\ WaitsForTheEnding

\* They are the invariant.
LEMMA Halves == (PipeIInv <=> World /\ Handling) /\ (PipeIInv' <=> World' /\ Handling')
<1>1. PipeIInv <=> World /\ Handling
  BY DEF PipeIInv, PipeTypeOK, TypeOK, DriverSound, Consistent, World, Handling
<1>2. PipeIInv' <=> World' /\ Handling'
  BY DEF PipeIInv, PipeTypeOK, TypeOK, DriverSound, Consistent, World, Handling
<1> QED BY <1>1, <1>2

\* Who waits for the next turn of the round listens to something, so an
\* object that does is live.
LEMMA LinkedIsLive ==
  ASSUME World, NEW w \in Linked(drv.run_list)
  PROVE  /\ w \in Watchers /\ drv.event_listening[w] # {}
         /\ \A p \in Pipes : w = rw(p) \/ w = tw(p) => pipe[p].live
<1>1. w \in Watchers
  BY LinkedSubset DEF World, DriverType
<1>2. drv.event_listening[w] # {}
  BY <1>1 DEF World, ListsConsistent, Registered
<1> QED BY <1>1, <1>2 DEF World, WatchedWhileLive

\* Steps that open, close and watch nothing
LEMMA SameEnds ==
  ASSUME World, UNCHANGED << fd, pipe, open, drv.event_listening >>
  PROVE  EndsApart' /\ PipesOwned' /\ WatchedWhileLive'
<1>1. EndsApart'
  BY DEF World, EndsApart
<1>2. PipesOwned'
  BY DEF World, PipesOwned
<1>3. WatchedWhileLive'
  BY DEF World, WatchedWhileLive
<1> QED BY <1>1, <1>2, <1>3

\* A step that changes one child, and nothing the loop looks at unless its
\* watcher has had its turn, keeps the first half.
LEMMA ChildStepKeepsWorld ==
  ASSUME World, NEW p \in Pipes, NEW c \in ChildType,
         child' = [child EXCEPT ![p] = c],
         c.st = "none" <=> child[p].st = "none",
         rw(p) \notin Linked(drv.run_list) \/ (HasNews(p) => c.out > 0 \/ c.st # "running"),
         UNCHANGED << drv, fd, sets, call, pipe, open >>
  PROVE  World'
<1>1. child \in [Pipes -> ChildType]
  BY DEF World
<1>2. /\ child' \in [Pipes -> ChildType] /\ child'[p] = c
      /\ \A q \in Pipes \ {p} : child'[q] = child[q]
  BY <1>1
<1>3. NewsHolds'
  BY <1>2 DEF World, NewsHolds, HasNews
<1>4. \A q \in Pipes : child'[q].st = "none" <=> ~pipe[q].live
  BY <1>2 DEF World
<1>5. EndsApart' /\ PipesOwned' /\ WatchedWhileLive'
  BY SameEnds
<1> QED BY <1>2, <1>3, <1>4, <1>5 DEF World

\* So does a step that only asks for room in the pipe to a child, or no more.
LEMMA RewatchKeepsWorld ==
  ASSUME World, NEW p \in Pipes, pipe[p].live, NEW evs \in SUBSET { "TX" },
         Rewatched(drv, drv', tw(p), evs),
         UNCHANGED << fd, sets, call, pipe, open, child >>
  PROVE  /\ World'
         /\ Linked(drv'.run_list) \subseteq Linked(drv.run_list)
         /\ drv.run_list = EmptyList => drv'.run_list = EmptyList
<1>1. /\ drv' \in DriverType /\ ListsConsistent(drv')
      /\ drv'.event_listening = [drv.event_listening EXCEPT ![tw(p)] = evs]
      /\ Linked(drv'.run_list) \subseteq Linked(drv.run_list)
      /\ drv.run_list = EmptyList => drv'.run_list = EmptyList
      /\ drv.event_listening \in [Watchers -> SUBSET Events]
  BY DEF Rewatched, World, DriverType
<1>2. \A w \in Watchers : drv'.event_listening[w] = IF w = tw(p) THEN evs ELSE drv.event_listening[w]
  BY <1>1
<1>3. WatchedWhileLive'
  <2> SUFFICES ASSUME NEW q \in Pipes
               PROVE  /\ drv'.event_listening[rw(q)] = IF pipe[q].live THEN { "RX" } ELSE {}
                      /\ drv'.event_listening[tw(q)] \subseteq IF pipe[q].live THEN { "TX" } ELSE {}
    BY DEF WatchedWhileLive
  <2>1. /\ drv.event_listening[rw(q)] = IF pipe[q].live THEN { "RX" } ELSE {}
        /\ drv.event_listening[tw(q)] \subseteq IF pipe[q].live THEN { "TX" } ELSE {}
    BY DEF World, WatchedWhileLive
  <2>2. drv'.event_listening[rw(q)] = drv.event_listening[rw(q)]
    BY <1>2, Names
  <2>3. CASE q = p
    BY <2>1, <2>2, <2>3, <1>2, Names
  <2>4. CASE q # p
    <3>1. drv'.event_listening[tw(q)] = drv.event_listening[tw(q)]
      BY <2>4, <1>2, Names
    <3> QED BY <3>1, <2>1, <2>2
  <2> QED BY <2>3, <2>4
<1>4. NewsHolds'
  BY <1>1 DEF World, NewsHolds, HasNews
<1>5. EndsApart' /\ PipesOwned'
  <2>1. EndsApart'
    BY DEF World, EndsApart
  <2>2. PipesOwned'
    BY DEF World, PipesOwned
  <2> QED BY <2>1, <2>2
<1>6. World'
  BY <1>1, <1>3, <1>4, <1>5 DEF World
<1> QED BY <1>1, <1>6
-----------------------------------------------------------------------------
(* The children and the loop.                                                *)

\* Whatever a child does beside the loop
LEMMA ChildRunsKeeps ==
  ASSUME PipeIInv, NEW p \in Pipes, ChildRuns(p)
  PROVE  PipeIInv'
<1>1. World /\ Handling /\ child[p] \in ChildType /\ MaxOut \in Nat
      /\ UNCHANGED << drv, fd, sets, phase, call, pipe, open, frame >>
  BY Halves, IoPipeAssumption DEF World, ChildRuns, vars
<1>2. \E c \in ChildType :
        /\ child' = [child EXCEPT ![p] = c]
        /\ child[p].st # "none" /\ c.st # "none"
        /\ HasNews(p) => c.out > 0 \/ c.st # "running"
        /\ child[p].st # "running" => c.st # "running" /\ c.out = child[p].out
  <2>1. CASE ChildWrites(p)
    <3> DEFINE c == [child[p] EXCEPT !.out = @ + 1]
    <3>1. c \in ChildType /\ c.st = child[p].st /\ c.out > 0
      BY <1>1, <2>1 DEF ChildWrites, ChildType
    <3> QED BY <3>1, <2>1 DEF ChildWrites
  <2>2. CASE ChildReads(p)
    <3> DEFINE c == [child[p] EXCEPT !.room = TRUE]
    <3>1. c \in ChildType /\ c.st = child[p].st /\ c.out = child[p].out
      BY <1>1 DEF ChildType
    <3> QED BY <3>1, <2>2 DEF ChildReads, HasNews
  <2>3. CASE ChildClosesOutput(p)
    <3> DEFINE c == [child[p] EXCEPT !.st = "closed"]
    <3>1. c \in ChildType /\ c.st = "closed" /\ c.out = child[p].out
      BY <1>1 DEF ChildType
    <3> QED BY <3>1, <2>3 DEF ChildClosesOutput
  <2>4. CASE ChildExits(p)
    <3> DEFINE c == [child[p] EXCEPT !.st = "exited"]
    <3>1. c \in ChildType /\ c.st = "exited" /\ c.out = child[p].out
      BY <1>1 DEF ChildType
    <3> QED BY <3>1, <2>4 DEF ChildExits
  <2> QED BY <2>1, <2>2, <2>3, <2>4 DEF ChildRuns
<1>3. PICK c \in ChildType :
        /\ child' = [child EXCEPT ![p] = c]
        /\ child[p].st # "none" /\ c.st # "none"
        /\ HasNews(p) => c.out > 0 \/ c.st # "running"
        /\ child[p].st # "running" => c.st # "running" /\ c.out = child[p].out
  BY <1>2
<1>4. World'
  BY <1>1, <1>3, ChildStepKeepsWorld
<1>5. child \in [Pipes -> ChildType] /\ child'[p] = c /\ \A q \in Pipes \ {p} : child'[q] = child[q]
  BY <1>1, <1>3 DEF World
<1>6. \A q \in Pipes : HasNews(q) => HasNews(q)'
  BY <1>3, <1>5 DEF HasNews
<1>7. FrameSound'
  BY <1>1, <1>6 DEF Handling, FrameSound
<1>8. \A q \in Pipes : AtEnd(q) => AtEnd(q)'
  BY <1>1, <1>3, <1>5 DEF AtEnd
<1>9. WaitsForTheEnding'
  BY <1>1, <1>8 DEF Handling, WaitsForTheEnding
<1>10. Handling'
  BY <1>1, <1>7, <1>9 DEF Handling
<1> QED BY <1>4, <1>10, Halves

\* io_driver_run up to the dispatching of what select returned
LEMMA SelectKeeps ==
  ASSUME PipeIInv, Select
  PROVE  PipeIInv'
<1>1. World /\ Handling /\ frame.at = "none"
      /\ UNCHANGED << fd, call, pipe, open, child, frame >>
      /\ drv' = Splice(drv) /\ phase = "app" /\ phase' = "dispatch"
      /\ sets' = KernelReady /\ sets' \in [Events -> SUBSET Fds]
  BY Halves DEF Select, SelectReady, pipeVars
<1>2. /\ drv' \in DriverType /\ ListsConsistent(drv')
      /\ drv'.run_list = drv.watchers
      /\ drv'.event_listening = drv.event_listening
  BY <1>1, SpliceKeepsLists DEF World, Handling
<1>3. NewsHolds'
  <2> SUFFICES ASSUME NEW p \in Pipes, rw(p) \in Linked(drv'.run_list), fd[rw(p)] \in sets'["RX"]
               PROVE  HasNews(p)
    BY <1>1 DEF NewsHolds, HasNews
  <2>1. rw(p) \in Linked(drv.watchers)
    BY <1>2
  <2>2. Registered(drv, rw(p))
    BY <2>1, <1>1, Names DEF World, ListsConsistent
  <2>3. pipe[p].live
    BY <2>2, <1>1 DEF Registered, World, WatchedWhileLive
  <2>4. Readable(fd[rw(p)])
    BY <1>1, IoPipeAssumption DEF KernelReady
  <2> QED BY <1>1, <2>3, <2>4, ReadableIsNews DEF World
<1>4. World'
  <2>1. EndsApart' /\ PipesOwned' /\ WatchedWhileLive'
    BY <1>1, <1>2, SameEnds
  <2> QED BY <1>1, <1>2, <1>3, <2>1 DEF World
<1>5. Handling'
  BY <1>1 DEF Handling, FrameSound, WaitsForTheEnding
<1> QED BY <1>4, <1>5, Halves

\* One turn of the loop of io_driver_postselect: a handler that is called
\* finds its object live, and what select said of it true.
LEMMA DispatchKeeps ==
  ASSUME PipeIInv, Dispatch
  PROVE  PipeIInv'
<1> DEFINE h == Head(drv.run_list)
<1>1. World /\ Handling
      /\ UNCHANGED << fd, sets, pipe, open, child >>
      /\ drv.run_list # EmptyList /\ drv' = Requeue(drv) /\ phase = "dispatch"
      /\ phase' = (IF Ready(h) # {} THEN "callback" ELSE "dispatch")
      /\ call' = (IF Ready(h) # {} THEN [call EXCEPT ![h] = Ready(h)] ELSE call)
      /\ frame' = (IF phase' = "callback"
                   THEN [NoFrame EXCEPT !.at = "enter", !.w = h, !.e = call'[h]] ELSE frame)
  BY Halves DEF Dispatch, DispatchNext
<1>2. /\ drv' \in DriverType /\ ListsConsistent(drv')
      /\ h \in Watchers /\ h \in Linked(drv.run_list)
      /\ Linked(drv'.run_list) = Linked(drv.run_list) \ {h}
      /\ drv'.event_listening = drv.event_listening
  BY <1>1, RequeueKeepsLists DEF World
<1> HIDE DEF h
<1>3. Ready(h) \in SUBSET Events
  BY <1>1, <1>2 DEF Ready, World, DriverType
<1>4. call \in [Watchers -> SUBSET Events] /\ call' \in [Watchers -> SUBSET Events]
  BY <1>1, <1>2, <1>3 DEF World
<1>5. NewsHolds'
  BY <1>1, <1>2 DEF World, NewsHolds, HasNews
<1>6. World'
  <2>0. UNCHANGED << fd, pipe, open, drv.event_listening >>
    BY <1>1, <1>2
  <2>1. EndsApart' /\ PipesOwned' /\ WatchedWhileLive'
    BY <1>1, <2>0, SameEnds
  <2> QED BY <1>1, <1>2, <1>4, <1>5, <2>1 DEF World
<1>7. Handling'
  <2>1. CASE Ready(h) = {}
    <3>1. phase' = "dispatch" /\ frame' = frame
      BY <1>1, <2>1
    <3>2. frame.at \notin { "enter", "wait", "user" }
      BY <1>1 DEF Handling
    <3>3. FrameSound' /\ WaitsForTheEnding'
      BY <3>1, <3>2 DEF FrameSound, WaitsForTheEnding
    <3>4. frame \in FrameType
      BY <1>1 DEF Handling
    <3> QED BY <3>1, <3>2, <3>3, <3>4 DEF Handling
  <2>2. CASE Ready(h) # {}
    <3>1. phase' = "callback" /\ call'[h] \in SUBSET Events
          /\ frame' = [NoFrame EXCEPT !.at = "enter", !.w = h, !.e = call'[h]]
      BY <1>1, <1>2, <1>4, <2>2
    <3>2. frame' = [ at |-> "enter", w |-> h, e |-> call'[h], ev |-> "none" ]
      BY <3>1 DEF NoFrame
    <3>3. frame' \in FrameType /\ frame'.at = "enter" /\ frame'.w = h
      <4>1. h \in Watchers \cup { <<>> } /\ call'[h] \in SUBSET Events
        BY <1>2, <3>1
      <4>2. frame' \in FrameType
        BY <3>2, <4>1 DEF FrameType
      <4> QED BY <3>2, <4>2
    <3>4. ASSUME NEW p \in Pipes, h = rw(p) PROVE pipe[p].live /\ HasNews(p)
      <4>1. pipe[p].live
        BY <1>1, <1>2, <3>4, LinkedIsLive
      <4>2. drv.event_listening[h] = { "RX" }
        BY <1>1, <3>4, <4>1 DEF World, WatchedWhileLive
      <4>3. fd[h] \in sets["RX"]
        BY <2>2, <4>2 DEF Ready
      <4> QED BY <1>1, <1>2, <3>4, <4>1, <4>3 DEF World, NewsHolds
    <3>5. FrameSound'
      BY <1>1, <1>2, <3>3, <3>4 DEF FrameSound, HasNews
    <3> QED BY <3>1, <3>3, <3>5 DEF Handling, WaitsForTheEnding
  <2> QED BY <2>1, <2>2
<1> QED BY <1>6, <1>7, Halves

\* The first half does not look at the handler that runs.
LEMMA FrameStepKeepsWorld ==
  ASSUME World, UNCHANGED << drv, fd, sets, call, pipe, open, child >>
  PROVE  World'
<1>1. EndsApart' /\ PipesOwned' /\ WatchedWhileLive'
  BY SameEnds
<1>2. NewsHolds'
  BY DEF World, NewsHolds, HasNews
<1> QED BY <1>1, <1>2 DEF World

\* The return of a callback
LEMMA UserReturnsKeeps ==
  ASSUME PipeIInv, UserReturns
  PROVE  PipeIInv'
<1>1. World /\ Handling
      /\ UNCHANGED << drv, fd, sets, pipe, open, child >>
      /\ call' = NoCall /\ phase' = "dispatch" /\ frame' = NoFrame
  BY Halves DEF UserReturns, CallbackReturn
<1>2. World'
  <2>1. EndsApart' /\ PipesOwned' /\ WatchedWhileLive'
    BY <1>1, SameEnds
  <2>2. NewsHolds'
    BY <1>1 DEF World, NewsHolds, HasNews
  <2> QED BY <1>1, <2>1, <2>2 DEF World, NoCall
<1>3. Handling'
  BY <1>1 DEF Handling, NoFrame, FrameType, FrameSound, WaitsForTheEnding
<1> QED BY <1>2, <1>3, Halves

\* The end of a round: what select said is forgotten.
LEMMA RoundOverKeeps ==
  ASSUME PipeIInv, RoundOver
  PROVE  PipeIInv'
<1>1. World /\ Handling
      /\ UNCHANGED << drv, fd, call, pipe, open, child, frame >>
      /\ sets' = NoSets /\ phase = "dispatch" /\ phase' = "app" /\ drv.run_list = EmptyList
  BY Halves DEF RoundOver, DispatchDone, pipeVars
<1>2. World'
  <2>1. EndsApart' /\ PipesOwned' /\ WatchedWhileLive'
    BY <1>1, SameEnds
  <2>2. NewsHolds'
    BY <1>1, EmptyListProperties DEF NewsHolds
  <2> QED BY <1>1, <2>1, <2>2 DEF World, NoSets
<1>3. Handling'
  BY <1>1 DEF Handling, FrameSound, WaitsForTheEnding
<1> QED BY <1>2, <1>3, Halves
-----------------------------------------------------------------------------
(* The handlers.                                                             *)

\* While the user is called, the frame says no more than that.
LEMMA ToldIsHandling ==
  ASSUME Handling, phase = "callback", phase' = "callback",
         NEW ev \in { "none", "rx", "tx", "closed" }, frame' = Tell(ev)
  PROVE  Handling'
<1>1. frame' = [ at |-> "user", w |-> frame.w, e |-> {}, ev |-> ev ]
  BY DEF Tell, Handling, FrameType
<1>2. frame' \in FrameType
  BY <1>1 DEF Handling, FrameType
<1> QED BY <1>1, <1>2 DEF Handling, FrameSound, WaitsForTheEnding

\* io_pipe_rx_callback up to p->cb or waitpid
LEMMA RxCallbackKeeps ==
  ASSUME PipeIInv, NEW p \in Pipes, RxCallback(p)
  PROVE  PipeIInv'
<1>1. /\ World /\ Handling /\ MaxOut \in Nat
      /\ child \in [Pipes -> ChildType] /\ child[p] \in ChildType
      /\ frame.at = "enter" /\ frame.w = rw(p)
      /\ UNCHANGED << drv, fd, sets, phase, call, pipe, open >>
  BY Halves, IoPipeAssumption DEF World, RxCallback, Entered, vars
<1>2. /\ pipe[p].live /\ HasNews(p) /\ phase = "callback" /\ phase' = "callback"
      /\ rw(p) \notin Linked(drv.run_list)
  BY <1>1 DEF Handling, FrameSound
<1>3. CASE child[p].out > 0
  <2>1. PICK left \in 0..(child[p].out - 1) : child' = [child EXCEPT ![p].out = left]
    BY <1>3 DEF RxCallback
  <2> DEFINE c == [child[p] EXCEPT !.out = left]
  <2>2. c \in ChildType /\ c.st = child[p].st
    BY <1>1, <2>1 DEF ChildType
  <2>3. child' = [child EXCEPT ![p] = c]
    BY <2>1
  <2> HIDE DEF c
  <2>4. World'
    BY <1>1, <1>2, <2>2, <2>3, ChildStepKeepsWorld
  <2>5. Handling'
    BY <1>1, <1>2, <1>3, ToldIsHandling DEF RxCallback
  <2> QED BY <2>4, <2>5, Halves
<1>4. CASE ~(child[p].out > 0)
  <2>1. child' = child /\ frame' = [frame EXCEPT !.at = "wait", !.e = {}]
    BY <1>4 DEF RxCallback
  <2>2. World'
    BY <1>1, <2>1, FrameStepKeepsWorld
  <2>3. frame' = [ at |-> "wait", w |-> frame.w, e |-> {}, ev |-> frame.ev ]
    BY <1>1, <2>1 DEF Handling, FrameType
  <2>4. frame' \in FrameType
    BY <1>1, <2>3 DEF Handling, FrameType
  <2>5. AtEnd(p)
    BY <1>1, <1>2, <1>4, AtEndIs DEF World, HasNews, ChildType
  <2>6. AtEnd(p)'
    BY <1>1, <2>1, <2>5 DEF AtEnd
  <2>7. WaitsForTheEnding'
    BY <1>1, <1>2, <2>3, <2>6 DEF WaitsForTheEnding
  <2>8. FrameSound'
    BY <1>1, <1>2, <2>3, Names DEF FrameSound
  <2>9. Handling'
    BY <1>1, <1>2, <2>3, <2>4, <2>7, <2>8 DEF Handling
  <2> QED BY <2>2, <2>9, Halves
<1> QED BY <1>3, <1>4

\* Its rest: waitpid has returned.
LEMMA WaitpidKeeps ==
  ASSUME PipeIInv, NEW p \in Pipes, Waitpid(p)
  PROVE  PipeIInv'
<1>1. World /\ Handling /\ child \in [Pipes -> ChildType] /\ child[p] \in ChildType
      /\ frame.at = "wait" /\ frame.w = rw(p) /\ child[p].st \in { "exited", "reaped" }
      /\ UNCHANGED << drv, fd, sets, phase, call, pipe, open >>
      /\ child' = [child EXCEPT ![p].st = "reaped"] /\ frame' = Tell("closed")
  BY Halves DEF World, Waitpid, EndTold, vars
<1> DEFINE c == [child[p] EXCEPT !.st = "reaped"]
<1>2. c \in ChildType /\ c.st = "reaped" /\ child' = [child EXCEPT ![p] = c]
  BY <1>1 DEF ChildType
<1> HIDE DEF c
<1>3. World'
  BY <1>1, <1>2, ChildStepKeepsWorld
<1>4. Handling'
  BY <1>1, ToldIsHandling DEF Handling
<1> QED BY <1>3, <1>4, Halves

\* io_pipe_tx_callback up to p->cb
LEMMA TxCallbackKeeps ==
  ASSUME PipeIInv, NEW p \in Pipes, TxCallback(p)
  PROVE  PipeIInv'
<1>1. World /\ Handling /\ frame.at = "enter" /\ tw(p) \in Watchers
      /\ drv' = NoWatch(drv, tw(p), { "TX" }) /\ frame' = Tell("tx")
      /\ UNCHANGED << fd, sets, phase, call, pipe, open, child >>
  BY Halves, Names DEF TxCallback, Entered, loopVars
<1>2. drv.event_listening[tw(p)] \subseteq { "TX" }
  BY <1>1 DEF World, WatchedWhileLive
<1>3. Rewatched(drv, drv', tw(p), {})
  <2>1. { "TX" } \in SUBSET Events
    BY IoPipeAssumption
  <2>2. Rewatched(drv, drv', tw(p), drv.event_listening[tw(p)] \ { "TX" })
    BY <1>1, <2>1, NoWatchRewatches DEF World
  <2>3. drv.event_listening[tw(p)] \ { "TX" } = {}
    BY <1>2
  <2> QED BY <2>2, <2>3
<1>4. CASE pipe[p].live
  <2>1. World'
    BY <1>1, <1>3, <1>4, RewatchKeepsWorld
  <2>2. Handling'
    BY <1>1, ToldIsHandling DEF Handling
  <2> QED BY <2>1, <2>2, Halves
<1>5. CASE ~pipe[p].live
  <2>1. drv.event_listening[tw(p)] = {}
    BY <1>1, <1>5 DEF World, WatchedWhileLive
  <2>2. drv' = drv
    BY <1>1, <2>1 DEF NoWatch, Ignore, World, DriverType
  <2>3. World'
    BY <1>1, <2>2, FrameStepKeepsWorld
  <2>4. Handling'
    BY <1>1, ToldIsHandling DEF Handling
  <2> QED BY <2>3, <2>4, Halves
<1> QED BY <1>4, <1>5

-----------------------------------------------------------------------------
(* The calls of the program.                                                 *)

\* A call of the program leaves the handler it is made in as it is, and puts
\* nothing on the round.
LEMMA CallIsHandling ==
  ASSUME Handling, Program, UNCHANGED << phase, frame >>,
         drv.run_list = EmptyList => drv'.run_list = EmptyList
  PROVE  Handling'
BY DEF Handling, Program, FrameSound, WaitsForTheEnding

\* io_pipe_tx, when write() takes something
LEMMA TxWrittenKeeps ==
  ASSUME PipeIInv, NEW p \in Pipes, TxWritten(p)
  PROVE  PipeIInv'
<1>1. World /\ Handling /\ Program /\ child[p] \in ChildType
      /\ child' = [child EXCEPT ![p].room = FALSE]
      /\ UNCHANGED << drv, fd, sets, phase, call, pipe, open, frame >>
  BY Halves DEF World, TxWritten, MayTransmit, vars
<1> DEFINE c == [child[p] EXCEPT !.room = FALSE]
<1>2. c \in ChildType /\ c.st = child[p].st /\ c.out = child[p].out
      /\ child' = [child EXCEPT ![p] = c]
  BY <1>1 DEF ChildType
<1> HIDE DEF c
<1>3. World'
  BY <1>1, <1>2, ChildStepKeepsWorld DEF HasNews
<1>4. Handling'
  BY <1>1, CallIsHandling
<1> QED BY <1>3, <1>4, Halves

\* io_pipe_tx, when the pipe is full
LEMMA TxScheduledKeeps ==
  ASSUME PipeIInv, NEW p \in Pipes, TxScheduled(p)
  PROVE  PipeIInv'
<1>1. World /\ Handling /\ Program /\ pipe[p].live /\ tw(p) \in Watchers
      /\ UNCHANGED << fd, sets, call, pipe, open, child >>
      /\ phase' = (IF frame'.at = "fault" THEN "app" ELSE phase)
  BY Halves, Names DEF TxScheduled, MayTransmit
<1>2. CASE pipe[p].driver = "set"
  <2>1. drv' = Watch(drv, tw(p), { "TX" }) /\ frame' = frame
    BY <1>2 DEF TxScheduled
  <2>2. Rewatched(drv, drv', tw(p), { "TX" })
    <3>1. drv.event_listening[tw(p)] \subseteq { "TX" }
      BY <1>1 DEF World, WatchedWhileLive
    <3>2. { "TX" } \in SUBSET Events
      BY IoPipeAssumption
    <3>3. Rewatched(drv, drv', tw(p), drv.event_listening[tw(p)] \cup { "TX" })
      BY <1>1, <2>1, <3>2, WatchRewatches DEF World
    <3>4. drv.event_listening[tw(p)] \cup { "TX" } = { "TX" }
      BY <3>1
    <3> QED BY <3>3, <3>4
  <2>3. World' /\ (drv.run_list = EmptyList => drv'.run_list = EmptyList)
    BY <1>1, <2>2, RewatchKeepsWorld
  <2>4. phase' = phase
    BY <1>1, <2>1 DEF Program
  <2>5. Handling'
    BY <1>1, <2>1, <2>3, <2>4, CallIsHandling
  <2> QED BY <2>3, <2>5, Halves
<1>3. CASE pipe[p].driver # "set"
  <2>1. drv' = drv /\ frame' = [NoFrame EXCEPT !.at = "fault"]
    BY <1>3 DEF TxScheduled
  <2>2. World'
    BY <1>1, <2>1, FrameStepKeepsWorld
  <2>3. frame' \in FrameType /\ frame'.at = "fault" /\ phase' = "app"
    BY <1>1, <2>1 DEF NoFrame, FrameType
  <2>4. Handling'
    BY <2>3 DEF Handling, FrameSound, WaitsForTheEnding
  <2> QED BY <2>2, <2>4, Halves
<1> QED BY <1>2, <1>3
\* io_pipe_init: the two ends the parent keeps are new, so they are nobody
\* else's, and nothing of what select said is of them.
LEMMA InitKeeps ==
  ASSUME PipeIInv, NEW p \in Pipes, io_pipe_init(p)
  PROVE  PipeIInv'
<1> DEFINE r == Lowest(1)
           t == Lowest(4)
<1>1. World /\ Handling /\ Program /\ ~pipe[p].live
      /\ open' = open \cup Kept(p)
      /\ fd' = [fd EXCEPT ![rw(p)] = r, ![tw(p)] = t]
      /\ child' = [child EXCEPT ![p] = [NoChild EXCEPT !.st = "running"]]
      /\ pipe' = [pipe EXCEPT ![p].live = TRUE]
      /\ drv' = Watched(p)
      /\ UNCHANGED << sets, phase, call, frame >>
  BY Halves DEF io_pipe_init, loopVars
<1>2. r \in Free /\ t \in Free /\ r # t
  BY NewEnds DEF io_pipe_init
<1>3. r \in Fds /\ t \in Fds /\ \A o \in open : o[1] # r /\ o[1] # t
  BY <1>2 DEF Free, Taken
<1> HIDE DEF r, t
<1>4. rw(p) \in Watchers /\ tw(p) \in Watchers /\ rw(p) # tw(p)
  BY Names
<1>5. /\ fd' \in [Watchers -> Fds] /\ fd'[rw(p)] = r /\ fd'[tw(p)] = t
      /\ \A w \in Watchers \ { rw(p), tw(p) } : fd'[w] = fd[w]
  BY <1>1, <1>3, <1>4 DEF World
<1>6. \A q \in Pipes \ {p} : fd'[rw(q)] = fd[rw(q)] /\ fd'[tw(q)] = fd[tw(q)]
  BY <1>5, Names
<1>7. /\ child' \in [Pipes -> ChildType] /\ child'[p].st = "running"
      /\ \A q \in Pipes \ {p} : child'[q] = child[q]
  <2>1. NoChild \in ChildType
    BY IoPipeAssumption DEF NoChild, ChildType
  <2>2. /\ [NoChild EXCEPT !.st = "running"] \in ChildType
        /\ [NoChild EXCEPT !.st = "running"].st = "running"
    BY <2>1 DEF ChildType
  <2> QED BY <1>1, <2>1, <2>2 DEF World
<1>8. /\ pipe' \in [Pipes -> [ live : BOOLEAN, driver : FreshDriver ]]
      /\ pipe'[p].live /\ \A q \in Pipes \ {p} : pipe'[q] = pipe[q]
  BY <1>1 DEF World
<1>9. Kept(p) = { << r, p, "read" >>, << t, p, "write" >> }
  BY EndNames DEF Kept, r, t
<1>10. /\ drv' \in DriverType /\ ListsConsistent(drv')
       /\ drv'.run_list = drv.run_list
       /\ drv'.event_listening = [drv.event_listening EXCEPT ![rw(p)] = { "RX" }]
       /\ drv.event_listening \in [Watchers -> SUBSET Events]
  <2>1. drv.event_listening \in [Watchers -> SUBSET Events] /\ drv \in DriverType
        /\ drv = [ watchers |-> drv.watchers, run_list |-> drv.run_list,
                   event_listening |-> drv.event_listening ]
    BY <1>1 DEF World, DriverType
  <2>2. drv.event_listening[rw(p)] = {} /\ drv.event_listening[tw(p)] = {}
    BY <1>1 DEF World, WatchedWhileLive
  <2>3. [drv EXCEPT !.event_listening[rw(p)] = {}, !.event_listening[tw(p)] = {}] = drv
    <3>1. [drv.event_listening EXCEPT ![rw(p)] = {}] = drv.event_listening
      BY <2>1, <2>2
    <3>2. [drv.event_listening EXCEPT ![tw(p)] = {}] = drv.event_listening
      BY <2>1, <2>2
    <3> QED BY <2>1, <3>1, <3>2
  <2>4. drv' = Watch(drv, rw(p), { "RX" })
    BY <1>1, <2>3 DEF Watched
  <2>5. { "RX" } \in SUBSET Events
    BY IoPipeAssumption
  <2>6. /\ drv' \in DriverType /\ ListsConsistent(drv')
        /\ drv'.run_list = drv.run_list
        /\ drv'.event_listening = [drv.event_listening EXCEPT ![rw(p)] = @ \cup { "RX" }]
    BY <1>1, <1>4, <2>1, <2>4, <2>5, WatchKeepsLists DEF World
  <2> QED BY <2>1, <2>2, <2>6
<1>11. WatchedWhileLive'
  <2> SUFFICES ASSUME NEW q \in Pipes
               PROVE  /\ drv'.event_listening[rw(q)] = IF pipe'[q].live THEN { "RX" } ELSE {}
                      /\ drv'.event_listening[tw(q)] \subseteq IF pipe'[q].live THEN { "TX" } ELSE {}
    BY DEF WatchedWhileLive
  <2>1. /\ drv.event_listening[rw(q)] = IF pipe[q].live THEN { "RX" } ELSE {}
        /\ drv.event_listening[tw(q)] \subseteq IF pipe[q].live THEN { "TX" } ELSE {}
    BY <1>1 DEF World, WatchedWhileLive
  <2>2. drv'.event_listening[tw(q)] = drv.event_listening[tw(q)]
    BY <1>10, Names
  <2>3. CASE q = p
    BY <1>1, <1>4, <1>8, <1>10, <2>1, <2>2, <2>3
  <2>4. CASE q # p
    <3>1. drv'.event_listening[rw(q)] = drv.event_listening[rw(q)]
      BY <1>10, <2>4, Names
    <3> QED BY <1>8, <2>1, <2>2, <2>4, <3>1
  <2> QED BY <2>3, <2>4
<1>12. EndsApart'
  <2>1. \A o \in Kept(p) : o[1] = r \/ o[1] = t
    BY <1>9
  <2>2. \A o1, o2 \in Kept(p) : o1[1] = o2[1] => o1 = o2
    BY <1>2, <1>9
  <2> QED BY <1>1, <1>3, <2>1, <2>2 DEF World, EndsApart
<1>13. PipesOwned'
  <2>1. ASSUME NEW o
        PROVE  o \in open' <=> \E q \in Pipes :
                 /\ pipe'[q].live
                 /\ o = << fd'[rw(q)], q, "read" >> \/ o = << fd'[tw(q)], q, "write" >>
    <3>1. o \in open <=> \E q \in Pipes :
            /\ pipe[q].live
            /\ o = << fd[rw(q)], q, "read" >> \/ o = << fd[tw(q)], q, "write" >>
      BY <1>1, OpenIs DEF World
    <3>2. o \in open' <=> o \in open \/ o = << r, p, "read" >> \/ o = << t, p, "write" >>
      BY <1>1, <1>9
    <3>3. o \in open <=> \E q \in Pipes \ {p} :
            /\ pipe'[q].live
            /\ o = << fd'[rw(q)], q, "read" >> \/ o = << fd'[tw(q)], q, "write" >>
      BY <1>1, <1>6, <1>8, <3>1
    <3> QED BY <1>5, <1>8, <3>2, <3>3
  <2> QED BY <2>1 DEF PipesOwned
<1>14. NewsHolds'
  <2>1. rw(p) \notin Linked(drv.run_list)
    BY <1>1, LinkedIsLive
  <2>2. ASSUME NEW q \in Pipes, rw(q) \in Linked(drv.run_list), fd'[rw(q)] \in sets["RX"]
        PROVE  HasNews(q)'
    BY <1>1, <1>6, <1>7, <2>1, <2>2 DEF World, NewsHolds, HasNews
  <2> QED BY <1>1, <1>10, <2>2 DEF NewsHolds
<1>15. World'
  <2>1. open' \subseteq Fds \X Pipes \X { End[i] : i \in 1..4 }
    BY <1>1, <1>3, <1>9, EndNames DEF World
  <2>2. \A q \in Pipes : child'[q].st = "none" <=> ~pipe'[q].live
    BY <1>1, <1>7, <1>8 DEF World
  <2>3. sets' \in [Events -> SUBSET Fds] /\ call' \in [Watchers -> SUBSET Events]
    BY <1>1 DEF World
  <2> QED BY <1>5, <1>7, <1>8, <1>10, <1>11, <1>12, <1>13, <1>14, <2>1, <2>2, <2>3 DEF World
<1>16. Handling'
  BY <1>1, <1>10, CallIsHandling
<1> QED BY <1>15, <1>16, Halves

\* io_pipe_close: the descriptors of the object are nobody else's, so what
\* is left open is what the others have.
LEMMA CloseKeeps ==
  ASSUME PipeIInv, NEW p \in Pipes, io_pipe_close(p)
  PROVE  PipeIInv'
<1> DEFINE c == NoWatch(drv, rw(p), { "RX" })
<1>1. World /\ Handling /\ Program /\ pipe[p].live
      /\ drv' = NoWatch(c, tw(p), { "TX" })
      /\ open' = { o \in open : o[1] \notin { fd[rw(p)], fd[tw(p)] } }
      /\ pipe' = [pipe EXCEPT ![p].live = FALSE]
      /\ child' = [child EXCEPT ![p] = NoChild]
      /\ UNCHANGED << sets, phase, call, fd, frame >>
  BY Halves DEF io_pipe_close, Unwatched, loopVars
<1>2. /\ drv.event_listening \in [Watchers -> SUBSET Events]
      /\ drv.event_listening[rw(p)] = { "RX" } /\ drv.event_listening[tw(p)] \subseteq { "TX" }
      /\ { "RX" } \in SUBSET Events /\ { "TX" } \in SUBSET Events
  BY <1>1, IoPipeAssumption DEF World, DriverType, WatchedWhileLive
<1>3. rw(p) \in Watchers /\ tw(p) \in Watchers /\ rw(p) # tw(p)
  BY Names
<1>4. Rewatched(drv, c, rw(p), drv.event_listening[rw(p)] \ { "RX" })
  BY <1>1, <1>2, <1>3, NoWatchRewatches DEF World
<1> HIDE DEF c
<1>5. c.event_listening = [drv.event_listening EXCEPT ![rw(p)] = {}]
  BY <1>2, <1>4 DEF Rewatched
<1>6. Rewatched(c, drv', tw(p), c.event_listening[tw(p)] \ { "TX" })
  <2>1. c \in DriverType /\ ListsConsistent(c)
    BY <1>4 DEF Rewatched
  <2> QED BY <1>1, <1>2, <1>3, <2>1, NoWatchRewatches
<1>7. /\ drv' \in DriverType /\ ListsConsistent(drv')
      /\ Linked(drv'.run_list) \subseteq Linked(drv.run_list)
      /\ drv.run_list = EmptyList => drv'.run_list = EmptyList
  BY <1>4, <1>6 DEF Rewatched
<1>8. \A w \in Watchers : drv'.event_listening[w] =
                            IF w = rw(p) \/ w = tw(p) THEN {} ELSE drv.event_listening[w]
  <2>1. c.event_listening \in [Watchers -> SUBSET Events]
    BY <1>4 DEF Rewatched, DriverType
  <2>2. drv'.event_listening = [c.event_listening EXCEPT ![tw(p)] = {}]
    <3>1. c.event_listening[tw(p)] \ { "TX" } = {}
      BY <1>2, <1>3, <1>5
    <3> QED BY <1>6, <3>1 DEF Rewatched
  <2> QED BY <1>2, <1>3, <1>5, <2>1, <2>2
<1>9. /\ child' \in [Pipes -> ChildType] /\ child'[p].st = "none"
      /\ \A q \in Pipes \ {p} : child'[q] = child[q]
  <2>1. NoChild \in ChildType /\ NoChild.st = "none"
    BY IoPipeAssumption DEF NoChild, ChildType
  <2> QED BY <1>1, <2>1 DEF World
<1>10. /\ pipe' \in [Pipes -> [ live : BOOLEAN, driver : FreshDriver ]]
       /\ ~pipe'[p].live /\ \A q \in Pipes \ {p} : pipe'[q] = pipe[q]
  BY <1>1 DEF World
<1>11. WatchedWhileLive'
  <2> SUFFICES ASSUME NEW q \in Pipes
               PROVE  /\ drv'.event_listening[rw(q)] = IF pipe'[q].live THEN { "RX" } ELSE {}
                      /\ drv'.event_listening[tw(q)] \subseteq IF pipe'[q].live THEN { "TX" } ELSE {}
    BY DEF WatchedWhileLive
  <2>1. /\ drv.event_listening[rw(q)] = IF pipe[q].live THEN { "RX" } ELSE {}
        /\ drv.event_listening[tw(q)] \subseteq IF pipe[q].live THEN { "TX" } ELSE {}
    BY <1>1 DEF World, WatchedWhileLive
  <2>2. CASE q = p
    BY <1>3, <1>8, <1>10, <2>2
  <2>3. CASE q # p
    <3>1. /\ drv'.event_listening[rw(q)] = drv.event_listening[rw(q)]
          /\ drv'.event_listening[tw(q)] = drv.event_listening[tw(q)]
      BY <1>8, <2>3, Names
    <3> QED BY <1>10, <2>1, <2>3, <3>1
  <2> QED BY <2>2, <2>3
<1>12. PipesOwned'
  <2>1. ASSUME NEW o
        PROVE  o \in open' <=> \E q \in Pipes :
                 /\ pipe'[q].live
                 /\ o = << fd'[rw(q)], q, "read" >> \/ o = << fd'[tw(q)], q, "write" >>
    <3>1. o \in open <=> \E q \in Pipes :
            /\ pipe[q].live
            /\ o = << fd[rw(q)], q, "read" >> \/ o = << fd[tw(q)], q, "write" >>
      BY <1>1, OpenIs DEF World
    <3>2. \A q \in Pipes \ {p} : pipe[q].live =>
            /\ fd[rw(q)] \notin { fd[rw(p)], fd[tw(p)] }
            /\ fd[tw(q)] \notin { fd[rw(p)], fd[tw(p)] }
      BY <1>1, FdsApart DEF World
    <3>3. o \in open' <=> o \in open /\ o[1] \notin { fd[rw(p)], fd[tw(p)] }
      BY <1>1
    <3>4. ASSUME o \in open'
          PROVE  \E q \in Pipes :
                   /\ pipe'[q].live
                   /\ o = << fd'[rw(q)], q, "read" >> \/ o = << fd'[tw(q)], q, "write" >>
      <4>1. PICK q \in Pipes :
              /\ pipe[q].live
              /\ o = << fd[rw(q)], q, "read" >> \/ o = << fd[tw(q)], q, "write" >>
        BY <3>1, <3>3, <3>4
      <4>2. o[1] = fd[rw(q)] \/ o[1] = fd[tw(q)]
        BY <4>1
      <4>3. q # p
        BY <3>3, <3>4, <4>1
      <4> QED BY <1>1, <1>10, <4>1, <4>3
    <3>5. ASSUME NEW q \in Pipes, pipe'[q].live,
                 o = << fd'[rw(q)], q, "read" >> \/ o = << fd'[tw(q)], q, "write" >>
          PROVE  o \in open'
      <4>1. q # p /\ pipe[q].live
        BY <1>10, <3>5
      <4>2. o[1] \notin { fd[rw(p)], fd[tw(p)] }
        BY <1>1, <3>2, <3>5, <4>1
      <4> QED BY <1>1, <3>1, <3>3, <3>5, <4>1, <4>2
    <3> QED BY <3>4, <3>5
  <2> QED BY <2>1 DEF PipesOwned
<1>13. NewsHolds'
  <2>1. rw(p) \notin Linked(drv'.run_list)
    <3>1. ~Registered(drv', rw(p))
      BY <1>3, <1>8 DEF Registered
    <3> QED BY <1>3, <1>7, <3>1 DEF ListsConsistent
  <2>2. ASSUME NEW q \in Pipes, rw(q) \in Linked(drv'.run_list), fd[rw(q)] \in sets["RX"]
        PROVE  HasNews(q)'
    BY <1>1, <1>7, <1>9, <2>1, <2>2 DEF World, NewsHolds, HasNews
  <2> QED BY <1>1, <2>2 DEF NewsHolds
<1>14. World'
  <2>1. open' \subseteq open /\ EndsApart'
    BY <1>1 DEF World, EndsApart
  <2>2. \A q \in Pipes : child'[q].st = "none" <=> ~pipe'[q].live
    BY <1>1, <1>9, <1>10 DEF World
  <2>3. /\ sets' \in [Events -> SUBSET Fds] /\ call' \in [Watchers -> SUBSET Events]
        /\ fd' \in [Watchers -> Fds] /\ open' \subseteq Fds \X Pipes \X { End[i] : i \in 1..4 }
    BY <1>1, <2>1 DEF World
  <2> QED BY <1>7, <1>9, <1>10, <1>11, <1>12, <1>13, <2>1, <2>2, <2>3 DEF World
<1>15. Handling'
  BY <1>1, <1>7, CallIsHandling
<1> QED BY <1>14, <1>15, Halves

-----------------------------------------------------------------------------
(* The invariant.                                                            *)

\* It holds before anything was started.
LEMMA InitSatisfies ==
  ASSUME PipeInit
  PROVE  PipeIInv
<1>1. EmptyList \in Seq(Watchers) /\ NoDuplicates(EmptyList) /\ Linked(EmptyList) = {}
  BY EmptyListProperties
<1>2. /\ drv = DriverInit /\ fd \in [Watchers -> Fds]
      /\ sets = NoSets /\ phase = "app" /\ call = NoCall
      /\ pipe \in [Pipes -> [ live : {FALSE}, driver : FreshDriver ]]
      /\ open = {} /\ child = [p \in Pipes |-> NoChild] /\ frame = NoFrame
  BY DEF PipeInit, Init
<1>3. drv \in DriverType /\ ListsConsistent(drv)
  BY <1>1, <1>2 DEF DriverInit, DriverType, ListsConsistent, Registered
<1>4. sets \in [Events -> SUBSET Fds] /\ call \in [Watchers -> SUBSET Events]
  BY <1>2 DEF NoSets, NoCall
<1>5. NoChild \in ChildType /\ NoChild.st = "none"
  BY IoPipeAssumption DEF NoChild, ChildType
<1>6. \A p \in Pipes : ~pipe[p].live
  BY <1>2
<1>7. pipe \in [Pipes -> [ live : BOOLEAN, driver : FreshDriver ]]
  BY <1>2
<1>8. EndsApart /\ PipesOwned
  BY <1>2, <1>6 DEF EndsApart, PipesOwned
<1>9. WatchedWhileLive
  BY <1>2, <1>6, Names DEF WatchedWhileLive, DriverInit
<1>10. NewsHolds
  BY <1>1, <1>2 DEF NewsHolds, DriverInit
<1>11. World
  BY <1>2, <1>3, <1>4, <1>5, <1>6, <1>7, <1>8, <1>9, <1>10 DEF World
<1>12. Handling
  BY <1>2 DEF Handling, DriverInit, NoFrame, FrameType, FrameSound, WaitsForTheEnding
<1> QED BY <1>11, <1>12, Halves

\* Every state of the program, its children and the loop satisfies it,
\* whatever is started, closed and transmitted, and in whatever order the
\* children end.
THEOREM PipeInvariantHolds == PipeSpec => []PipeIInv
<1>1. PipeInit => PipeIInv
  BY InitSatisfies
<1>2. PipeIInv /\ [PipeNext]_allVars => PipeIInv'
  <2> SUFFICES ASSUME PipeIInv, [PipeNext]_allVars PROVE PipeIInv'
    OBVIOUS
  <2>1. CASE Select
    BY <2>1, SelectKeeps
  <2>2. CASE Round
    BY <2>2, DispatchKeeps, UserReturnsKeeps, RoundOverKeeps DEF Round
  <2>3. ASSUME NEW p \in Pipes, Call(p) PROVE PipeIInv'
    BY <2>3, InitKeeps, CloseKeeps, TxWrittenKeeps, TxScheduledKeeps DEF Call
  <2>4. ASSUME NEW p \in Pipes, Handler(p) PROVE PipeIInv'
    BY <2>4, RxCallbackKeeps, WaitpidKeeps, TxCallbackKeeps DEF Handler
  <2>5. ASSUME NEW p \in Pipes, ChildRuns(p) PROVE PipeIInv'
    BY <2>5, ChildRunsKeeps
  <2>6. CASE UNCHANGED allVars
    <3>1. World /\ Handling
          /\ UNCHANGED << drv, fd, sets, phase, call, pipe, open, child, frame >>
      BY <2>6, Halves DEF allVars
    <3>2. World'
      BY <3>1, FrameStepKeepsWorld
    <3>3. Handling'
      <4>1. FrameSound' /\ WaitsForTheEnding'
        BY <3>1 DEF Handling, FrameSound, WaitsForTheEnding, HasNews, AtEnd
      <4> QED BY <3>1, <4>1 DEF Handling
    <3> QED BY <3>2, <3>3, Halves
  <2> QED BY <2>1, <2>2, <2>3, <2>4, <2>5, <2>6 DEF PipeNext
<1> QED BY <1>1, <1>2, PTL DEF PipeSpec

\* The variables of io_pipe.c keep their types; an object has a child
\* exactly while it is open.
THEOREM PipeTypeCorrect == PipeSpec => []PipeTypeOK
<1>1. PipeIInv => PipeTypeOK
  BY DEF PipeIInv
<1> QED BY <1>1, PipeInvariantHolds, PTL

\* The parent's open descriptors are the two of each live object: no end of
\* a pipe is left behind by io_pipe_init or io_pipe_close.
THEOREM PipesStayOwned == PipeSpec => []PipesOwned
<1>1. PipeIInv => PipesOwned
  BY DEF PipeIInv
<1> QED BY <1>1, PipeInvariantHolds, PTL

\* io_pipe_rx_callback blocks in waitpid only for a child whose output has
\* come to its end, never for one that is merely quiet.
THEOREM WaitsOnlyForTheEnding == PipeSpec => []WaitsForTheEnding
<1>1. PipeIInv => WaitsForTheEnding
  BY DEF PipeIInv
<1> QED BY <1>1, PipeInvariantHolds, PTL
=============================================================================
