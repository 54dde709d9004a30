--------------------------- MODULE Backend_proofs ---------------------------
(***************************************************************************)
(* Proofs about Backend, for every set of daemons, front ends, processes   *)
(* that save and directories, and every bound.                             *)
(***************************************************************************)
EXTENDS Backend, TLAPS

-----------------------------------------------------------------------------
\* The inductive invariant

\* The record of an operation has its fields.
Fields == {"op", "at", "ids", "dir", "places", "seen", "shown"}
IsOperation(w) == w = [x \in Fields |-> w[x]]

WorkShape ==
    /\ work = [p \in Procs |-> work[p]]
    /\ \A p \in Procs : IsOperation(work[p])

Shape ==
    /\ WorkShape
    /\ st = [d \in Daemons |-> st[d]]
    /\ ctx \in [Daemons -> Contexts]
    /\ prev \in [Daemons -> Contexts]
    /\ lock \in [Daemons -> Fronts \union {NoFront}]
    /\ fpc = [f \in Fronts |-> fpc[f]]
    /\ conn = [f \in Fronts |-> conn[f]]
    /\ handler = [f \in Fronts |-> handler[f]]
    /\ answer = [f \in Fronts |-> answer[f]]
    /\ verdict = [f \in Fronts |-> verdict[f]]
    /\ runs \in [Fronts -> Nat]

\* A command that no handler has taken yet was carried out by nobody, one that runs in the
\* front end has no handler, and handlers are for memories.
OneCarriesOut ==
    \A f \in Fronts :
        /\ fpc[f] \in {"new", "sent"} \/ Kind(f) \notin Memory =>
              handler[f] = "none" /\ runs[f] = 0
        /\ handler[f] = "waiting" => runs[f] = 0
        /\ fpc[f] = "local" => handler[f] = "none"
        /\ runs[f] <= 1

\* A command that was answered or ended with success was carried out, and nobody works on
\* it any more.
SuccessIsTrue ==
    \A f \in Fronts : Kind(f) \in Memory =>
        /\ fpc[f] \notin {"ping", "verify"}
        /\ answer[f] = "ok" => handler[f] = "over" /\ work[f].at = "ok"
        /\ verdict[f] = "ok" => /\ fpc[f] = "done"
                                /\ handler[f] \in {"none", "over"}
                                /\ work[f].at = "ok"

\* What the guard of d puts back is what d was started with, the cwd too unless it
\* was lost before.
Own(c, d) == c.home = OwnContext.home /\ (c = OwnContext \/ d \in strayed)

\* The daemon d is in the context of f, as far as f has one.
Serves(d, f) ==
    /\ ctx[d].home = Context[f].home
    /\ Context[f].cwd # NoCwd => ctx[d] = Context[f]
    /\ Context[f].cwd = NoCwd =>
           ctx[d] = Switched(OwnContext, Context[f]) \/ d \in strayed

\* A handler that works holds the lock of its daemon, which is in its context.
HolderOwns ==
    \A f \in Fronts, d \in Daemons :
        handler[f] = "holding" /\ conn[f] = d =>
            lock[d] = f /\ Serves(d, f) /\ Own(prev[d], d)

\* Handlers are in a daemon that has not ended.
HandlersRun ==
    \A f \in Fronts : handler[f] \in {"waiting", "holding"} =>
        conn[f] \in Daemons /\ st[conn[f]] \in {"up", "draining", "closing"}

\* A daemon without a command in it is as it was started.
FreeIsOwn ==
    \A d \in Daemons :
        (\A f \in Fronts : conn[f] = d => handler[f] # "holding") =>
            st[d] = "ended" \/ Own(ctx[d], d)
AllWorkFor == \A f \in Fronts : WorksFor(f)

Inv ==
    /\ Shape
    /\ OneCarriesOut
    /\ SuccessIsTrue
    /\ HolderOwns
    /\ HandlersRun
    /\ FreeIsOwn
    /\ AllWorkFor

-----------------------------------------------------------------------------
\* Steps of an operation

\* A step of a process changes its own operation and no other.
LEMMA GoesTo ==
    ASSUME WorkShape, NEW p \in Procs, NEW w, IsOperation(w), Goes(p, w)
    PROVE  /\ WorkShape'
           /\ work'[p] = w
           /\ \A q \in Procs \ {p} : work'[q] = work[q]
  BY DEF WorkShape, Goes, IsOperation

LEMMA AtPlace ==
    ASSUME WorkShape, NEW p \in Procs, NEW place, At(p, place)
    PROVE  /\ WorkShape'
           /\ work'[p].at = place /\ work'[p].places = work[p].places
           /\ \A q \in Procs \ {p} : work'[q] = work[q]
<1>1. IsOperation(work[p])
  BY DEF WorkShape
<1> DEFINE w == [work[p] EXCEPT !.at = place]
<1>2. Goes(p, w)
  BY DEF At
<1>3. IsOperation(w) /\ w.at = place /\ w.places = work[p].places
  BY <1>1 DEF IsOperation, Fields
<1> HIDE DEF w
<1> QED BY <1>2, <1>3, GoesTo

\* What every step of a command does: its places stay, and it was busy before.
Stays(p) ==
    /\ WorkShape'
    /\ work'[p].places = work[p].places
    /\ \A q \in Procs \ {p} : work'[q] = work[q]

LEMMA UseStays ==
    ASSUME WorkShape, NEW p \in Procs, UseStep(p)
    PROVE  Stays(p) /\ Busy(p)
<1> DEFINE w == work[p]
<1>1. IsOperation(w)
  BY DEF WorkShape
<1>2. \A place : At(p, place) => Stays(p)
  BY AtPlace DEF Stays
<1>3. ASSUME NEW v, Goes(p, v), IsOperation(v), v.places = w.places
      PROVE  Stays(p)
  BY <1>3, GoesTo DEF Stays
<1>4. \A a, b : /\ Goes(p, [w EXCEPT !.at = a, !.shown = b]) => Stays(p)
                /\ Goes(p, [w EXCEPT !.at = a, !.dir = b]) => Stays(p)
                /\ Goes(p, [w EXCEPT !.at = a, !.ids = b]) => Stays(p)
                /\ Goes(p, [w EXCEPT !.at = a, !.seen = b]) => Stays(p)
                /\ Goes(p, [w EXCEPT !.ids = a, !.shown = b]) => Stays(p)
  <2> TAKE a, b
  <2> DEFINE v1 == [w EXCEPT !.at = a, !.shown = b]
             v2 == [w EXCEPT !.at = a, !.dir = b]
             v3 == [w EXCEPT !.at = a, !.ids = b]
             v4 == [w EXCEPT !.at = a, !.seen = b]
             v5 == [w EXCEPT !.ids = a, !.shown = b]
  <2>1. /\ IsOperation(v1) /\ v1.places = w.places
        /\ IsOperation(v2) /\ v2.places = w.places
        /\ IsOperation(v3) /\ v3.places = w.places
        /\ IsOperation(v4) /\ v4.places = w.places
        /\ IsOperation(v5) /\ v5.places = w.places
    BY <1>1 DEF IsOperation, Fields
  <2> HIDE DEF v1, v2, v3, v4, v5, w
  <2>2. /\ Goes(p, v1) => Stays(p)
        /\ Goes(p, v2) => Stays(p)
        /\ Goes(p, v3) => Stays(p)
        /\ Goes(p, v4) => Stays(p)
        /\ Goes(p, v5) => Stays(p)
    BY <2>1, <1>3
  <2> QED BY <2>2 DEF v1, v2, v3, v4, v5
<1>5. \A next, d : Shows(p, d, next) => Stays(p)
  BY <1>2, <1>4 DEF Shows
<1>6. List(p) => Stays(p)
  BY <1>5 DEF List
<1>7. Get(p) => Stays(p)
  BY <1>2, <1>4 DEF Get
<1>8. FindEntry(p) => Stays(p)
  BY <1>2, <1>4 DEF FindEntry
<1>9. Unlink(p) => Stays(p)
  BY <1>2 DEF Unlink
<1>10. NextId(p) => Stays(p)
  BY <1>4 DEF NextId
<1>11. RemoveRead(p) => Stays(p)
  BY <1>2, <1>4, <1>10 DEF RemoveRead
<1>12. RemoveTruncate(p) => Stays(p)
  BY <1>2 DEF RemoveTruncate
<1>13. RemoveWrite(p) => Stays(p)
  BY <1>10 DEF RemoveWrite
<1>14. Busy(p)
  BY DEF UseStep, List, Get, FindEntry, Unlink, RemoveRead, RemoveTruncate, RemoveWrite,
         Busy, Ended
<1> QED
  BY <1>6, <1>7, <1>8, <1>9, <1>11, <1>12, <1>13, <1>14 DEF UseStep

LEMMA ResolveFinds ==
    ASSUME WorkShape, NEW p \in Procs, NEW c, Resolve(p, c)
    PROVE  /\ WorkShape' /\ Busy(p)
           /\ work'[p].places = Places(c)
           /\ \A q \in Procs \ {p} : work'[q] = work[q]
<1>1. IsOperation(work[p])
  BY DEF WorkShape
<1> DEFINE w == [work[p] EXCEPT !.at = work[p].op, !.places = Places(c)]
<1>2. Goes(p, w)
  BY DEF Resolve
<1>3. IsOperation(w) /\ w.places = Places(c)
  BY <1>1 DEF IsOperation, Fields
<1>4. Busy(p)
  BY DEF Resolve, Busy, Ended
<1> HIDE DEF w
<1> QED BY <1>2, <1>3, <1>4, GoesTo

LEMMA AskedIs ==
    ASSUME NEW op, NEW ids
    PROVE  /\ IsOperation(Asked(op, ids))
           /\ Asked(op, ids).places = Idle.places
  BY DEF Asked, Idle, IsOperation, Fields

LEMMA KilledStays ==
    ASSUME WorkShape, NEW p \in Procs, Killed(p)
    PROVE  Stays(p) /\ Busy(p)
  BY AtPlace DEF Killed, Stays

\* A process that saves has a place from the start on, and takes none from a context.
LEMMA SaveElsewhere ==
    ASSUME WorkShape, NEW s \in Procs, SaveStep(s)
    PROVE  WorkShape' /\ \A q \in Procs \ {s} : work'[q] = work[q]
<1> DEFINE w == work[s]
           Elsewhere == WorkShape' /\ \A q \in Procs \ {s} : work'[q] = work[q]
<1>1. IsOperation(w)
  BY DEF WorkShape
<1>2. \A place : At(s, place) => Elsewhere
  BY AtPlace
<1>3. ASSUME NEW v, Goes(s, v), IsOperation(v)
      PROVE  Elsewhere
  BY <1>3, GoesTo
<1>4. CASE StartSave(s)
  <2> DEFINE v == [Idle EXCEPT !.op = "save", !.at = "init", !.ids = <<s>>,
                               !.dir = SaveDir(Context[s])]
  <2>1. IsOperation(v)
    BY DEF Idle, IsOperation, Fields
  <2>2. Goes(s, v)
    BY <1>4 DEF StartSave
  <2> HIDE DEF v
  <2> QED BY <1>3, <2>1, <2>2
<1>5. \A x : Goes(s, [w EXCEPT !.at = "saveTruncate", !.seen = x]) => Elsewhere
  <2> TAKE x
  <2> DEFINE v == [w EXCEPT !.at = "saveTruncate", !.seen = x]
  <2>1. IsOperation(v)
    BY <1>1 DEF IsOperation, Fields
  <2> HIDE DEF v, Elsewhere
  <2>2. Goes(s, v) => Elsewhere
    BY <1>3, <2>1
  <2> QED BY <2>2 DEF v
<1> HIDE DEF Elsewhere
<1>6. SaveRead(s) => Elsewhere
  BY <1>2, <1>5 DEF SaveRead
<1>7. InitDir(s) \/ InitTruncate(s) \/ InitWrite(s) \/ CreateEntry(s) \/ FillEntry(s)
           \/ SaveTruncate(s) \/ SaveWrite(s) => Elsewhere
  BY <1>2 DEF InitDir, InitTruncate, InitWrite, CreateEntry, FillEntry, SaveTruncate,
              SaveWrite
<1> QED
  BY <1>4, <1>6, <1>7 DEF SaveStep, Elsewhere

-----------------------------------------------------------------------------
\* Steps of the system

LEMMA InitHolds == Init => Inv
<1> SUFFICES ASSUME Init
             PROVE  Inv
  OBVIOUS
<1> USE BackendAssumption, MemoryAssumption
<1>1. WorkShape
  BY DEF Init, MemInit, WorkShape, IsOperation, Fields, Idle, Absent
<1>2. Shape
  <2>1. OwnContext \in Contexts
    BY DEF BackendAssumption
  <2> QED BY <1>1, <2>1 DEF Init, Shape
<1>3. OneCarriesOut /\ SuccessIsTrue /\ HolderOwns /\ HandlersRun
  BY DEF Init, OneCarriesOut, Kind, SuccessIsTrue, HolderOwns, HandlersRun
<1>4. FreeIsOwn /\ AllWorkFor
  BY DEF Init, MemInit, FreeIsOwn, AllWorkFor, WorksFor, Own
<1> QED BY <1>2, <1>3, <1>4 DEF Inv

\* What a command has found stays right, while its handler goes on and daemons stray.
LEMMA WorksForStays ==
    ASSUME NEW f \in Fronts, WorksFor(f), work'[f].places = work[f].places,
           handler'[f] = handler[f] \/ handler[f] = "none" \/ handler'[f] = "over",
           handler[f] # "none" => conn'[f] = conn[f],
           strayed \subseteq strayed'
    PROVE  WorksFor(f)'
  BY DEF WorksFor, Idle

\* A daemon that starts, binds or goes away without being killed.
LEMMA DaemonMoves ==
    ASSUME Inv, UNCHANGED <<memVars, ctx, lock, prev, strayed, frontVars>>,
           st' = [d \in Daemons |-> st'[d]],
           \A d \in Daemons : st[d] = "ended" => st'[d] = "ended",
           \A f \in Fronts : handler[f] \in {"waiting", "holding"} =>
               st'[conn[f]] \in {"up", "draining", "closing"}
    PROVE  Inv'
<1>1. Shape'
  BY DEF Inv, Shape, WorkShape, IsOperation, memVars, frontVars
<1>2. OneCarriesOut' /\ SuccessIsTrue'
  BY DEF Inv, OneCarriesOut, SuccessIsTrue, Kind, memVars, frontVars
<1>3. HolderOwns' /\ HandlersRun' /\ FreeIsOwn'
  BY DEF Inv, HolderOwns, HandlersRun, FreeIsOwn, Serves, Own, memVars, frontVars
<1>4. AllWorkFor'
  BY WorksForStays DEF Inv, AllWorkFor, memVars, frontVars
<1> QED BY <1>1, <1>2, <1>3, <1>4 DEF Inv

LEMMA DaemonSteps ==
    ASSUME Inv, NEW d \in Daemons,
           \/ StartDaemon(d) \/ ClearPath(d) \/ Bind(d) \/ BreakLoop(d) \/ RemoveSocket(d)
           \/ EndDaemon(d)
    PROVE  Inv'
<1>1. st = [e \in Daemons |-> st[e]]
  BY DEF Inv, Shape
<1>2. UNCHANGED <<memVars, ctx, lock, prev, strayed, frontVars>>
  BY DEF StartDaemon, ClearPath, Bind, BreakLoop, RemoveSocket, EndDaemon
<1>3. PICK place :
          /\ st[d] # "ended" /\ st' = [st EXCEPT ![d] = place]
          /\ \/ st[d] \notin {"up", "draining", "closing"}
             \/ place \in {"draining", "closing"}
             \/ \A f \in Fronts : conn[f] = d => handler[f] \in {"none", "over"}
  BY DEF StartDaemon, ClearPath, Bind, BreakLoop, RemoveSocket, EndDaemon
<1>4. st' = [e \in Daemons |-> st'[e]]
  BY <1>1, <1>3
<1>5. \A e \in Daemons : st[e] = "ended" => st'[e] = "ended"
  BY <1>1, <1>3
<1>6. \A f \in Fronts : handler[f] \in {"waiting", "holding"} =>
          st'[conn[f]] \in {"up", "draining", "closing"}
  BY <1>1, <1>3 DEF Inv, HandlersRun
<1> QED BY <1>2, <1>4, <1>5, <1>6, DaemonMoves

LEMMA KillDaemonKeeps ==
    ASSUME Inv, NEW d \in Daemons, KillDaemon(d)
    PROVE  Inv'
<1> USE BackendAssumption, MemoryAssumption
<1>1. /\ WorkShape'
      /\ \A p \in Procs : /\ work'[p].places = work[p].places
                          /\ work[p].at = "ok" => work'[p].at = "ok"
  <2>1. CASE lock[d] # NoFront /\ Busy(lock[d])
    <3>1. lock[d] \in Procs
      BY <2>1 DEF Inv, Shape, Procs
    <3>2. Stays(lock[d])
      BY <2>1, <3>1, KilledStays DEF KillDaemon, Inv, Shape
    <3> QED BY <2>1, <3>1, <3>2 DEF Stays, Busy, Ended
  <2>2. CASE ~(lock[d] # NoFront /\ Busy(lock[d]))
    BY <2>2 DEF KillDaemon, memVars, Inv, Shape, WorkShape, IsOperation
  <2> QED BY <2>1, <2>2
<1>2. /\ handler' = [f \in Fronts |-> handler'[f]]
      /\ \A f \in Fronts : handler'[f] = handler[f] \/ (handler[f] # "none" /\ handler'[f] = "over")
      /\ \A f \in Fronts : handler'[f] = "holding" => conn[f] # d
      /\ \A f \in Fronts : conn[f] # d => handler'[f] = handler[f]
  BY DEF KillDaemon
<1>3. st' = [e \in Daemons |-> IF e = d THEN "ended" ELSE st[e]]
  BY DEF KillDaemon, Inv, Shape
<1>4. UNCHANGED <<ctx, lock, prev, strayed, cmd, fpc, conn, answer, verdict, runs>>
  BY DEF KillDaemon
<1>5. Shape'
  BY <1>1, <1>2, <1>3, <1>4 DEF Inv, Shape
<1>6. OneCarriesOut'
  BY <1>2, <1>4 DEF Inv, OneCarriesOut, Kind
<1>7. SuccessIsTrue'
  BY <1>1, <1>2, <1>4 DEF Inv, SuccessIsTrue, Kind, Procs
<1>8. HolderOwns' /\ HandlersRun'
  <2>1. HolderOwns'
    BY <1>2, <1>4 DEF Inv, HolderOwns, Serves, Own
  <2>2. ASSUME NEW f \in Fronts, handler'[f] \in {"waiting", "holding"}
        PROVE  conn'[f] \in Daemons /\ st'[conn'[f]] \in {"up", "draining", "closing"}
    <3>1. handler'[f] = handler[f]
      BY <1>2, <2>2
    <3>2. conn[f] # d
      BY <2>2 DEF KillDaemon
    <3>3. conn[f] \in Daemons /\ st[conn[f]] \in {"up", "draining", "closing"}
      BY <2>2, <3>1 DEF Inv, HandlersRun
    <3>4. st'[conn[f]] = st[conn[f]]
      BY <3>2 DEF KillDaemon, Inv, Shape
    <3> QED BY <1>4, <3>3, <3>4
  <2> QED BY <2>1, <2>2 DEF HandlersRun
<1>9. FreeIsOwn'
  <2> SUFFICES ASSUME NEW e \in Daemons,
                      \A f \in Fronts : conn[f] = e => handler'[f] # "holding"
               PROVE  st'[e] = "ended" \/ Own(ctx[e], e)
    BY <1>4 DEF FreeIsOwn, Own
  <2>1. CASE e = d
    BY <1>3, <2>1
  <2>2. CASE e # d
    <3>1. \A f \in Fronts : conn[f] = e => handler[f] # "holding"
      BY <1>2, <2>2
    <3> QED BY <1>3, <2>2, <3>1 DEF Inv, FreeIsOwn
  <2> QED BY <2>1, <2>2
<1>10. AllWorkFor'
  BY <1>1, <1>2, <1>4, WorksForStays DEF Inv, AllWorkFor, Procs
<1> QED BY <1>5, <1>6, <1>7, <1>8, <1>9, <1>10 DEF Inv

LEMMA AcceptKeeps ==
    ASSUME Inv, NEW d \in Daemons, NEW f \in Fronts, Accept(d, f)
    PROVE  Inv'
<1>1. Shape'
  <2>1. \E a, h : /\ answer' = [answer EXCEPT ![f] = a]
                 /\ handler' = [handler EXCEPT ![f] = h]
    BY DEF Accept
  <2>2. /\ fpc' = [fpc EXCEPT ![f] = "served"]
        /\ UNCHANGED <<work, st, ctx, lock, prev, conn, verdict, runs>>
    BY DEF Accept, Moves, memVars
  <2> QED BY <2>1, <2>2, ZenonT(40) DEF Inv, Shape, WorkShape, IsOperation
<1>2. OneCarriesOut'
  BY DEF Accept, Moves, Inv, Shape, OneCarriesOut, Kind
<1>3. SuccessIsTrue'
  BY DEF Accept, Moves, memVars, Inv, Shape, OneCarriesOut, SuccessIsTrue, Kind, Memory
<1>4. /\ UNCHANGED <<work, st, ctx, lock, prev, strayed, conn>>
      /\ conn[f] = d /\ st[d] = "up" /\ handler[f] = "none"
      /\ \A g \in Fronts : handler'[g] = handler[g] \/ (g = f /\ handler'[g] = "waiting")
  BY DEF Accept, memVars, Inv, Shape, OneCarriesOut, Kind
<1>5. HolderOwns' /\ HandlersRun'
  BY <1>4 DEF Inv, HolderOwns, HandlersRun, Serves, Own
<1>6. FreeIsOwn' /\ AllWorkFor'
  BY <1>4, WorksForStays DEF Inv, FreeIsOwn, Own, AllWorkFor
<1> QED BY <1>1, <1>2, <1>3, <1>5, <1>6 DEF Inv

\* What the switch of a context leaves.
LEMMA SwitchedIs ==
    ASSUME NEW old \in Contexts, NEW new \in Contexts
    PROVE  /\ Switched(old, new) \in Contexts
           /\ Switched(old, new).home = new.home
           /\ new.cwd # NoCwd => Switched(old, new) = new
  BY DEF Switched, Contexts

LEMMA ApplyContextKeeps ==
    ASSUME Inv, NEW d \in Daemons, NEW f \in Fronts, ApplyContext(d, f)
    PROVE  Inv'
<1> USE BackendAssumption, MemoryAssumption
<1>1. f \in Procs
  BY DEF Procs
<1>2. CASE handler' = [handler EXCEPT ![f] = "holding"]
  <2>1. /\ WorkShape' /\ work'[f].places = Idle.places
        /\ \A p \in Procs \ {f} : work'[p] = work[p]
    <3>1. Goes(f, Asked(Kind(f), cmd[f].ids))
      BY <1>2 DEF ApplyContext, Inv, Shape
    <3> QED BY <1>1, <3>1, AskedIs, GoesTo DEF Inv, Shape
  <2>2. /\ lock' = [lock EXCEPT ![d] = f] /\ prev' = [prev EXCEPT ![d] = ctx[d]]
        /\ ctx' = [ctx EXCEPT ![d] = Switched(ctx[d], Context[f])]
        /\ runs' = [runs EXCEPT ![f] = @ + 1]
        /\ UNCHANGED answer
    BY <1>2 DEF ApplyContext, Inv, Shape
  <2>3. Shape'
    <3>1. UNCHANGED <<st, fpc, conn, verdict>>
      BY DEF ApplyContext
    <3>2. runs' \in [Fronts -> Nat]
      BY <2>2 DEF Inv, Shape
    <3>3. lock' \in [Daemons -> Fronts \union {NoFront}]
      BY <2>2 DEF Inv, Shape
    <3>4. handler' = [g \in Fronts |-> handler'[g]]
      BY <1>2, <2>2 DEF Inv, Shape
    <3>5. ctx' \in [Daemons -> Contexts] /\ prev' \in [Daemons -> Contexts]
      BY <1>1, <2>2, SwitchedIs DEF Inv, Shape, MemoryAssumption
    <3> QED BY <3>5, <2>1, <2>2, <3>1, <3>2, <3>3, <3>4 DEF Inv, Shape
  <2>4. OneCarriesOut'
    BY <1>2, <2>2 DEF ApplyContext, Inv, Shape, OneCarriesOut, Kind
  <2>5. SuccessIsTrue'
    BY <1>2, <2>1, <2>2 DEF ApplyContext, Inv, Shape, SuccessIsTrue, Kind, Procs
  <2>6. /\ lock[d] = NoFront /\ conn[f] = d /\ handler[f] = "waiting"
        /\ UNCHANGED <<conn, st, strayed>>
    BY DEF ApplyContext
  <2>7. ASSUME NEW g \in Fronts, conn[g] = d
        PROVE  handler[g] # "holding"
    BY <2>6, <2>7 DEF Inv, HolderOwns, BackendAssumption
  <2>8. Own(ctx[d], d)
    BY <2>6, <2>7 DEF Inv, FreeIsOwn, HandlersRun
  <2>9. Serves(d, f)' /\ Own(prev[d], d)'
    <3>1. ctx'[d] = Switched(ctx[d], Context[f]) /\ prev'[d] = ctx[d]
      BY <2>2 DEF Inv, Shape
    <3>2. ctx[d] \in Contexts /\ Context[f] \in Contexts
      BY <1>1 DEF Inv, Shape, MemoryAssumption
    <3>3. /\ ctx'[d].home = Context[f].home
          /\ Context[f].cwd # NoCwd => ctx'[d] = Context[f]
      <4>1. /\ Switched(ctx[d], Context[f]).home = Context[f].home
            /\ Context[f].cwd # NoCwd => Switched(ctx[d], Context[f]) = Context[f]
        BY <3>2, SwitchedIs
      <4> QED BY ONLY <3>1, <4>1
    <3> QED BY <2>6, <2>8, <3>1, <3>3 DEF Serves, Own
  <2>10. ASSUME NEW g \in Fronts \ {f}, handler[g] = "holding"
         PROVE  conn[g] # d
    BY <2>7, <2>10
  <2>11. HolderOwns'
    <3> SUFFICES ASSUME NEW g \in Fronts, NEW e \in Daemons,
                        handler'[g] = "holding", conn'[g] = e
                 PROVE  lock'[e] = g /\ Serves(e, g)' /\ Own(prev[e], e)'
      BY DEF HolderOwns
    <3>1. CASE g = f
      BY <2>2, <2>6, <2>9, <3>1 DEF Inv, Shape
    <3>2. CASE g # f
      <4>1. handler[g] = "holding" /\ e # d
        BY <1>2, <2>6, <2>10, <3>2 DEF Inv, Shape
      <4>2. lock[e] = g /\ Serves(e, g) /\ Own(prev[e], e)
        BY <2>6, <4>1 DEF Inv, HolderOwns
      <4>3. ctx'[e] = ctx[e] /\ prev'[e] = prev[e] /\ lock'[e] = lock[e]
        BY <2>2, <4>1 DEF Inv, Shape
      <4> QED BY <2>6, <4>2, <4>3 DEF Serves, Own
    <3> QED BY <3>1, <3>2
  <2>12. HandlersRun'
    BY <1>2, <2>6 DEF Inv, Shape, HandlersRun
  <2>13. FreeIsOwn'
    <3> SUFFICES ASSUME NEW e \in Daemons,
                        \A g \in Fronts : conn'[g] = e => handler'[g] # "holding"
                 PROVE  st'[e] = "ended" \/ Own(ctx[e], e)'
      BY DEF FreeIsOwn
    <3>1. e # d
      BY <1>2, <2>6 DEF Inv, Shape
    <3>2. \A g \in Fronts : conn[g] = e => handler[g] # "holding"
      BY <1>2, <2>6, <3>1 DEF Inv, Shape
    <3> QED BY <2>2, <2>6, <3>1, <3>2 DEF Inv, Shape, FreeIsOwn, Own
  <2>14. AllWorkFor'
    <3> SUFFICES ASSUME NEW g \in Fronts
                 PROVE  WorksFor(g)'
      BY DEF AllWorkFor
    <3>1. CASE g = f
      BY <2>1, <3>1 DEF WorksFor, Idle
    <3>2. CASE g # f
      <4>1. work'[g].places = work[g].places /\ handler'[g] = handler[g]
        BY <1>2, <2>1, <3>2 DEF Inv, Shape, Procs
      <4> QED BY <2>6, <4>1, WorksForStays DEF Inv, AllWorkFor
    <3> QED BY <3>1, <3>2
  <2> QED BY <2>3, <2>4, <2>5, <2>11, <2>12, <2>13, <2>14 DEF Inv
<1>3. CASE handler' = [handler EXCEPT ![f] = "over"]
  <2>1. /\ UNCHANGED <<work, lock, ctx, prev, strayed, runs, cmd, fpc, conn, verdict, st>>
        /\ handler[f] = "waiting"
        /\ \E a \in {"err", answer[f]} : answer' = [answer EXCEPT ![f] = a]
    BY <1>3 DEF ApplyContext, Inv, Shape
  <2>2. Shape'
    BY <1>3, <2>1 DEF Inv, Shape, WorkShape, IsOperation
  <2>3. OneCarriesOut'
    BY <1>3, <2>1 DEF Inv, Shape, OneCarriesOut, Kind
  <2>4. SuccessIsTrue'
    BY <1>3, <2>1 DEF Inv, Shape, SuccessIsTrue, Kind
  <2>5. /\ handler'[f] = "over"
        /\ \A g \in Fronts \ {f} : handler'[g] = handler[g]
    BY <1>3 DEF Inv, Shape
  <2>6. HolderOwns' /\ HandlersRun'
    BY <2>1, <2>5 DEF Inv, HolderOwns, HandlersRun, Serves, Own
  <2>7. FreeIsOwn' /\ AllWorkFor'
    BY <2>1, <2>5, WorksForStays DEF Inv, FreeIsOwn, Own, AllWorkFor
  <2> QED BY <2>2, <2>3, <2>4, <2>6, <2>7 DEF Inv
<1> QED BY <1>2, <1>3 DEF ApplyContext

\* The directories a daemon finds for the command it serves.
LEMMA ServedPlaces ==
    ASSUME Inv, NEW d \in Daemons, NEW f \in Fronts, conn[f] = d, handler[f] = "holding",
           UNCHANGED <<conn, handler, strayed>>, work'[f].places = Places(ctx[d])
    PROVE  WorksFor(f)'
<1>1. Serves(d, f)
  BY DEF Inv, HolderOwns
<1>2. CASE Context[f].cwd # NoCwd
  BY <1>1, <1>2 DEF Serves, WorksFor, Idle
<1>3. CASE Context[f].cwd = NoCwd
  <2>1. work'[f].places.global = Global[Context[f].home]
    BY <1>1 DEF Serves, Places
  <2> QED BY <1>1, <1>3, <2>1 DEF Serves, WorksFor, Idle
<1> QED BY <1>2, <1>3

LEMMA HandleKeeps ==
    ASSUME Inv, NEW d \in Daemons, NEW f \in Fronts, Handle(d, f)
    PROVE  Inv'
<1>1. f \in Procs /\ conn[f] = d /\ handler[f] = "holding"
  BY DEF Procs, Handle
<1>2. UNCHANGED <<st, ctx, lock, prev, strayed, conn, handler>>
  BY DEF Handle, daemonVars, frontVars
<1>3. /\ WorkShape' /\ Busy(f)
      /\ work'[f].places \in {work[f].places, Places(ctx[d])}
      /\ \A p \in Procs \ {f} : work'[p] = work[p]
  BY <1>1, UseStays, ResolveFinds DEF Handle, Stays, Inv, Shape
<1>4. Shape' /\ OneCarriesOut'
  BY <1>3 DEF Handle, daemonVars, frontVars, Inv, Shape, OneCarriesOut, Kind
<1>5. SuccessIsTrue'
  BY <1>3 DEF Handle, daemonVars, frontVars, Inv, SuccessIsTrue, Kind, Busy, Ended, Procs
<1>6. HolderOwns' /\ HandlersRun' /\ FreeIsOwn'
  BY <1>2 DEF Inv, HolderOwns, HandlersRun, FreeIsOwn, Serves, Own
<1>7. AllWorkFor'
  <2> SUFFICES ASSUME NEW g \in Fronts
               PROVE  WorksFor(g)'
    BY DEF AllWorkFor
  <2>1. CASE work'[g].places = work[g].places
    BY <1>2, <2>1, WorksForStays DEF Inv, AllWorkFor
  <2>2. CASE g = f /\ work'[f].places = Places(ctx[d])
    BY <1>1, <1>2, <2>2, ServedPlaces
  <2> QED BY <1>3, <2>1, <2>2 DEF Procs
<1> QED BY <1>4, <1>5, <1>6, <1>7 DEF Inv

LEMMA ReleaseKeeps ==
    ASSUME Inv, NEW d \in Daemons, NEW f \in Fronts, Release(d, f)
    PROVE  Inv'
<1> USE BackendAssumption
<1>1. /\ UNCHANGED <<work, prev, runs, cmd, fpc, conn, verdict, st>>
      /\ handler[f] = "holding" /\ conn[f] = d
      /\ handler' = [handler EXCEPT ![f] = "over"]
      /\ \E a \in {work[f].at, answer[f]} : answer' = [answer EXCEPT ![f] = a]
      /\ lock' = [lock EXCEPT ![d] = NoFront]
  BY DEF Release, memVars, Inv, Shape
<1>2. /\ handler'[f] = "over"
      /\ \A g \in Fronts \ {f} : handler'[g] = handler[g]
      /\ \A e \in Daemons \ {d} : lock'[e] = lock[e]
  BY <1>1 DEF Inv, Shape
<1>3. Own(prev[d], d) /\ prev[d] \in Contexts /\ ctx[d] \in Contexts
  BY <1>1 DEF Inv, HolderOwns, Shape
<1>4. /\ ctx' \in [Daemons -> Contexts] /\ strayed \subseteq strayed'
      /\ Own(ctx[d], d)'
      /\ \A e \in Daemons \ {d} : ctx'[e] = ctx[e] /\ (e \in strayed' <=> e \in strayed)
  <2>1. CASE ctx' = [ctx EXCEPT ![d] = prev[d]] /\ UNCHANGED strayed
    BY <1>3, <2>1 DEF Inv, Shape, Own
  <2>2. CASE /\ ctx' = [ctx EXCEPT ![d] = [prev[d] EXCEPT !.cwd = ctx[d].cwd]]
             /\ strayed' = strayed \union {d}
    <3> DEFINE c == [prev[d] EXCEPT !.cwd = ctx[d].cwd]
    <3>1. c \in Contexts /\ c.home = prev[d].home
      BY <1>3 DEF Contexts
    <3> HIDE DEF c
    <3>2. ctx' = [ctx EXCEPT ![d] = c]
      BY <2>2 DEF c
    <3> QED BY <1>3, <2>2, <3>1, <3>2 DEF Inv, Shape, Own
  <2> QED BY <2>1, <2>2 DEF Release, PutsBack
<1>5. Shape'
  <2>1. WorkShape' /\ handler' = [g \in Fronts |-> handler'[g]]
    BY <1>1 DEF Inv, Shape, WorkShape, IsOperation
  <2>2. lock' \in [Daemons -> Fronts \union {NoFront}]
    BY <1>1 DEF Inv, Shape
  <2>3. answer' = [g \in Fronts |-> answer'[g]]
    BY <1>1 DEF Inv, Shape
  <2> QED BY <1>1, <1>4, <2>1, <2>2, <2>3 DEF Inv, Shape
<1>6. OneCarriesOut'
  BY <1>1 DEF Inv, Shape, OneCarriesOut, Kind
<1>7. SuccessIsTrue'
  BY <1>1 DEF Inv, Shape, SuccessIsTrue, Kind
<1>8. HolderOwns'
  <2> SUFFICES ASSUME NEW g \in Fronts, NEW e \in Daemons,
                      handler'[g] = "holding", conn'[g] = e
               PROVE  lock'[e] = g /\ Serves(e, g)' /\ Own(prev[e], e)'
    BY DEF HolderOwns
  <2>1. g # f /\ handler[g] = "holding" /\ conn[g] = e
    BY <1>1, <1>2
  <2>2. lock[e] = g /\ Serves(e, g) /\ Own(prev[e], e)
    BY <2>1 DEF Inv, HolderOwns
  <2>3. e # d
    BY <1>1, <2>1, <2>2 DEF Inv, HolderOwns
  <2> QED BY <1>1, <1>2, <1>4, <2>2, <2>3 DEF Serves, Own
<1>9. HandlersRun'
  BY <1>1, <1>2 DEF Inv, HandlersRun
<1>10. FreeIsOwn'
  <2> SUFFICES ASSUME NEW e \in Daemons,
                      \A g \in Fronts : conn'[g] = e => handler'[g] # "holding"
               PROVE  st'[e] = "ended" \/ Own(ctx[e], e)'
    BY DEF FreeIsOwn
  <2>1. CASE e = d
    BY <1>4, <2>1
  <2>2. CASE e # d
    <3>1. \A g \in Fronts : conn[g] = e => handler[g] # "holding"
      BY <1>1, <1>2, <2>2
    <3> QED BY <1>1, <1>4, <2>2, <3>1 DEF Inv, FreeIsOwn, Own
  <2> QED BY <2>1, <2>2
<1>11. AllWorkFor'
  BY <1>1, <1>2, <1>4, WorksForStays DEF Inv, AllWorkFor
<1> QED BY <1>5, <1>6, <1>7, <1>8, <1>9, <1>10, <1>11 DEF Inv

\* The command of a front end goes on in that front end.
LEMMA RunsLocallyKeeps ==
    ASSUME Inv, NEW f \in Fronts, RunsLocally(f), Kind(f) \in Memory,
           fpc[f] \in {"new", "sent"},
           UNCHANGED <<daemonVars, cmd, conn, handler, answer>>
    PROVE  Inv'
<1>1. f \in Procs
  BY DEF Procs
<1>2. /\ WorkShape' /\ work'[f].places = Idle.places
      /\ \A p \in Procs \ {f} : work'[p] = work[p]
  <2>1. Goes(f, Asked(Kind(f), cmd[f].ids))
    BY DEF RunsLocally
  <2> QED BY <1>1, <2>1, AskedIs, GoesTo DEF Inv, Shape
<1>3. /\ fpc' = [fpc EXCEPT ![f] = "local"] /\ UNCHANGED verdict
      /\ runs' = [runs EXCEPT ![f] = @ + 1]
  BY DEF RunsLocally, Moves
<1>4. Shape'
  <2>1. UNCHANGED <<st, ctx, lock, prev>>
    BY DEF daemonVars
  <2>2. runs' \in [Fronts -> Nat]
    <3>1. runs \in [Fronts -> Nat]
      BY DEF Inv, Shape
    <3> QED BY <1>3, <3>1
  <2>3. fpc' = [g \in Fronts |-> fpc'[g]]
    BY <1>3 DEF Inv, Shape
  <2> QED BY <1>2, <1>3, <2>1, <2>2, <2>3 DEF Inv, Shape
<1>5. OneCarriesOut'
  BY <1>3 DEF Inv, Shape, OneCarriesOut, Kind
<1>6. SuccessIsTrue'
  BY <1>2, <1>3 DEF Inv, Shape, OneCarriesOut, SuccessIsTrue, Kind, Procs
<1>7. HolderOwns' /\ HandlersRun' /\ FreeIsOwn'
  BY DEF daemonVars, Inv, HolderOwns, HandlersRun, FreeIsOwn, Serves, Own
<1>8. AllWorkFor'
  <2> SUFFICES ASSUME NEW g \in Fronts
               PROVE  WorksFor(g)'
    BY DEF AllWorkFor
  <2>1. CASE g = f
    BY <1>2, <2>1 DEF WorksFor, Idle
  <2>2. CASE g # f
    BY <1>2, <2>2, WorksForStays DEF daemonVars, Inv, AllWorkFor, Procs
  <2> QED BY <2>1, <2>2
<1> QED BY <1>4, <1>5, <1>6, <1>7, <1>8 DEF Inv

LEMMA LocalKeeps ==
    ASSUME Inv, NEW f \in Fronts, Local(f)
    PROVE  Inv'
<1>1. f \in Procs
  BY DEF Procs
<1>2. /\ fpc[f] = "local" /\ handler[f] = "none"
      /\ UNCHANGED <<daemonVars, cmd, conn, handler, answer, runs>>
  BY DEF Local, Inv, OneCarriesOut, Kind
<1>3. /\ WorkShape'
      /\ work'[f].places \in {work[f].places, Places(Context[f])}
      /\ \A p \in Procs \ {f} : work'[p] = work[p]
  <2>1. CASE UNCHANGED memVars
    BY <2>1 DEF memVars, Inv, Shape, WorkShape, IsOperation
  <2>2. CASE Resolve(f, Context[f]) \/ UseStep(f) \/ Killed(f)
    BY <1>1, <2>2, UseStays, ResolveFinds, KilledStays DEF Stays, Inv, Shape
  <2> QED BY <2>1, <2>2 DEF Local
<1>4. PICK place, v :
         /\ fpc' = [fpc EXCEPT ![f] = place] /\ verdict' = [verdict EXCEPT ![f] = v]
         /\ \/ place = "local" /\ v = verdict[f]
            \/ place = "done" /\ (v = "ok" => work'[f].at = "ok")
  <2>1. CASE UNCHANGED <<fpc, verdict>>
    BY <1>2, <2>1 DEF Inv, Shape
  <2>2. CASE \E v : Ends(f, v) /\ (v = "ok" => work'[f].at = "ok")
    BY <2>2 DEF Ends
  <2> QED BY <2>1, <2>2 DEF Local, memVars
<1>5. Shape'
  <2>1. UNCHANGED <<st, ctx, lock, prev, conn, handler, answer, runs>>
    BY <1>2 DEF daemonVars
  <2> QED BY <1>3, <1>4, <2>1 DEF Inv, Shape
<1>6. OneCarriesOut'
  BY <1>2, <1>4 DEF Inv, Shape, OneCarriesOut, Kind
<1>7. SuccessIsTrue'
  <2> SUFFICES ASSUME NEW g \in Fronts, Kind(g) \in Memory
               PROVE  /\ fpc'[g] \notin {"ping", "verify"}
                      /\ answer'[g] = "ok" => handler'[g] = "over" /\ work'[g].at = "ok"
                      /\ verdict'[g] = "ok" => /\ fpc'[g] = "done"
                                               /\ handler'[g] \in {"none", "over"}
                                               /\ work'[g].at = "ok"
    BY <1>2 DEF SuccessIsTrue, Kind
  <2>1. CASE g # f
    <3>1. fpc'[g] = fpc[g] /\ verdict'[g] = verdict[g] /\ work'[g] = work[g]
      BY <1>3, <1>4, <2>1 DEF Inv, Shape, Procs
    <3> QED BY <1>2, <3>1 DEF Inv, SuccessIsTrue
  <2>2. CASE g = f
    <3>1. fpc'[f] = place /\ verdict'[f] = v
      BY <1>4 DEF Inv, Shape
    <3>2. answer[f] # "ok" /\ verdict[f] # "ok"
      BY <1>2, <2>2 DEF Inv, SuccessIsTrue
    <3> QED BY <1>2, <1>4, <2>2, <3>1, <3>2
  <2> QED BY <2>1, <2>2
<1>8. HolderOwns' /\ HandlersRun' /\ FreeIsOwn'
  BY <1>2 DEF daemonVars, Inv, HolderOwns, HandlersRun, FreeIsOwn, Serves, Own
<1>9. AllWorkFor'
  <2> SUFFICES ASSUME NEW g \in Fronts
               PROVE  WorksFor(g)'
    BY DEF AllWorkFor
  <2>1. CASE work'[g].places = work[g].places
    BY <1>2, <2>1, WorksForStays DEF daemonVars, Inv, AllWorkFor
  <2>2. CASE g = f /\ work'[f].places = Places(Context[f])
    BY <2>2 DEF WorksFor
  <2> QED BY <1>3, <2>1, <2>2 DEF Procs
<1> QED BY <1>5, <1>6, <1>7, <1>8, <1>9 DEF Inv

\* A step of a front end that leaves its work and its handler alone: it connects, reads
\* an answer, waits, or ends.
LEMMA FrontMoves ==
    ASSUME Inv, NEW f \in Fronts, NEW place, NEW v,
           UNCHANGED <<memVars, ctx, lock, prev, strayed, cmd, handler, runs>>,
           fpc' = [fpc EXCEPT ![f] = place],
           fpc[f] \notin {"local", "done"},
           place # "local",
           place \in {"new", "sent"} => handler[f] = "none" /\ runs[f] = 0,
           Kind(f) \in Memory => place \notin {"ping", "verify"},
           verdict' = [verdict EXCEPT ![f] = v],
           v = "ok" /\ Kind(f) \in Memory => place = "done" /\ answer[f] = "ok",
           \E d : conn' = [conn EXCEPT ![f] = d],
           conn' # conn => handler[f] = "none",
           answer' = answer \/ answer' = [answer EXCEPT ![f] = "none"],
           st' = [d \in Daemons |-> st'[d]],
           \A d \in Daemons : st'[d] = st[d] \/ st[d] = "off"
    PROVE  Inv'
<1>1. Shape'
  BY DEF Inv, Shape, WorkShape, IsOperation, memVars
<1>2. OneCarriesOut'
  BY DEF Inv, Shape, OneCarriesOut, Kind
<1>3. SuccessIsTrue'
  BY ZenonT(40) DEF memVars, Inv, Shape, SuccessIsTrue, Kind
<1>4. \A g \in Fronts : handler[g] # "none" => conn'[g] = conn[g]
  BY DEF Inv, Shape
<1>5. HolderOwns'
  BY <1>4 DEF Inv, HolderOwns, Serves, Own
<1>6. HandlersRun'
  <2> SUFFICES ASSUME NEW g \in Fronts, handler[g] \in {"waiting", "holding"}
               PROVE  conn'[g] \in Daemons /\ st'[conn'[g]] \in {"up", "draining", "closing"}
    BY DEF HandlersRun
  <2>1. /\ conn'[g] = conn[g] /\ conn[g] \in Daemons
        /\ st[conn[g]] \in {"up", "draining", "closing"}
    BY <1>4 DEF Inv, HandlersRun
  <2> QED BY <2>1
<1>7. FreeIsOwn' /\ AllWorkFor'
  BY <1>4, WorksForStays DEF memVars, Inv, FreeIsOwn, Own, AllWorkFor
<1> QED BY <1>1, <1>2, <1>3, <1>5, <1>6, <1>7 DEF Inv

LEMMA FrontKeeps ==
    ASSUME Inv, NEW f \in Fronts,
           \/ ConnectMemory(f) \/ Dropped(f) \/ CutOff(f) \/ Receive(f) \/ Local(f)
    PROVE  Inv'
<1>1. /\ st = [d \in Daemons |-> st[d]] /\ conn = [conn EXCEPT ![f] = conn[f]]
      /\ fpc[f] # "done" /\ Kind(f) \in Memory => verdict[f] # "ok"
      /\ verdict = [verdict EXCEPT ![f] = verdict[f]]
  BY DEF Inv, Shape, SuccessIsTrue
<1>2. CASE ConnectMemory(f)
  <2>1. CASE Reachable
    <3>1. handler[f] = "none" /\ runs[f] = 0
      BY <1>2 DEF ConnectMemory, Inv, OneCarriesOut, Kind
    <3>2. /\ UNCHANGED <<memVars, st, ctx, lock, prev, strayed, cmd, handler, answer, runs,
                        verdict>>
          /\ fpc' = [fpc EXCEPT ![f] = "sent"] /\ conn' = [conn EXCEPT ![f] = path]
          /\ fpc[f] = "new" /\ Kind(f) \in Memory
      BY <1>2, <2>1 DEF ConnectMemory, Moves, daemonVars
    <3>3. verdict' = [verdict EXCEPT ![f] = verdict[f]] /\ verdict[f] # "ok"
      BY <1>1, <3>2
    <3> QED BY <1>1, <3>1, <3>2, <3>3, FrontMoves
  <2>2. CASE ~Reachable
    BY <1>2, <2>2, RunsLocallyKeeps DEF ConnectMemory
  <2> QED BY <2>1, <2>2
<1>3. CASE Dropped(f)
  <2>1. CASE RunsLocally(f) /\ Kind(f) \in Memory
    BY <1>3, <2>1, RunsLocallyKeeps DEF Dropped
  <2>2. CASE Ends(f, "err") /\ UNCHANGED <<memVars, runs>>
    BY <1>1, <1>3, <2>2, FrontMoves DEF Dropped, Ends, daemonVars
  <2> QED BY <1>3, <2>1, <2>2 DEF Dropped
<1>4. CASE CutOff(f)
  BY <1>1, <1>4, FrontMoves DEF CutOff, Ends, daemonVars
<1>5. CASE Receive(f)
  BY <1>1, <1>5, FrontMoves DEF Receive, Ends, daemonVars
<1> QED BY <1>2, <1>3, <1>4, <1>5, LocalKeeps

\* The commands that control a daemon carry out nothing.
LEMMA ControlKeeps ==
    ASSUME Inv, NEW f \in Fronts,
           \/ ProbeBackend(f) \/ ConnectControl(f) \/ EnsureAnswered(f)
           \/ VerifyBackend(f) \/ StopAnswered(f)
    PROVE  Inv'
<1>1. Kind(f) \notin Memory
  BY DEF ProbeBackend, ConnectControl, EnsureAnswered, VerifyBackend, StopAnswered, Memory,
         Inv, SuccessIsTrue
<1>2. handler[f] = "none" /\ runs[f] = 0
  BY <1>1 DEF Inv, OneCarriesOut
<1>3. UNCHANGED <<memVars, ctx, lock, prev, strayed, cmd, handler, runs>>
  BY DEF ProbeBackend, ConnectControl, EnsureAnswered, VerifyBackend, StopAnswered, daemonVars
<1>4. fpc[f] \in {"new", "ping", "served", "watch", "verify"}
  BY DEF ProbeBackend, ConnectControl, EnsureAnswered, VerifyBackend, StopAnswered
<1>5. \E place, v : /\ fpc' = [fpc EXCEPT ![f] = place] /\ place # "local"
                   /\ verdict' = [verdict EXCEPT ![f] = v]
  <2>1. \E place : (Moves(f, place) /\ place # "local") \/ \E v : Ends(f, v)
    BY DEF ProbeBackend, ConnectControl, EnsureAnswered, VerifyBackend, StopAnswered
  <2>2. verdict = [verdict EXCEPT ![f] = verdict[f]]
    BY DEF Inv, Shape
  <2> QED BY <2>1, <2>2 DEF Moves, Ends
<1>6. /\ \E d : conn' = [conn EXCEPT ![f] = d]
      /\ answer' = answer \/ answer' = [answer EXCEPT ![f] = "none"]
  <2>1. conn = [conn EXCEPT ![f] = conn[f]]
    BY DEF Inv, Shape
  <2> QED
    BY <2>1 DEF ProbeBackend, ConnectControl, EnsureAnswered, VerifyBackend, StopAnswered
<1>7. /\ st' = [d \in Daemons |-> st'[d]]
      /\ \A d \in Daemons : st'[d] = st[d] \/ st[d] = "off"
  <2>1. \/ UNCHANGED st
        \/ \E d \in Daemons : st[d] = "off" /\ st' = [st EXCEPT ![d] = "starting"]
    BY DEF ProbeBackend, ConnectControl, EnsureAnswered, VerifyBackend, StopAnswered,
           daemonVars
  <2>2. st = [d \in Daemons |-> st[d]]
    BY DEF Inv, Shape
  <2> QED BY <2>1, <2>2
<1>8. PICK place, v : /\ fpc' = [fpc EXCEPT ![f] = place] /\ place # "local"
                      /\ verdict' = [verdict EXCEPT ![f] = v]
  BY <1>5
<1>9. fpc[f] \notin {"local", "done"}
  BY <1>4
<1> QED
  BY <1>1, <1>2, <1>3, <1>6, <1>7, <1>8, <1>9, FrontMoves

LEMMA SaveKeeps ==
    ASSUME Inv, NEW s \in Savers, Save(s)
    PROVE  Inv'
<1> USE MemoryAssumption DEF MemoryAssumption
<1>1. s \in Procs /\ \A f \in Fronts : f \in Procs \ {s}
  BY DEF Procs
<1>2. WorkShape' /\ \A f \in Fronts : work'[f] = work[f]
  BY <1>1, SaveElsewhere, KilledStays DEF Save, Stays, Inv, Shape
<1>3. Shape'
  BY <1>2 DEF Save, daemonVars, frontVars, Inv, Shape
<1>4. OneCarriesOut' /\ SuccessIsTrue'
  BY <1>2 DEF Save, daemonVars, frontVars, Inv, OneCarriesOut, SuccessIsTrue, Kind
<1>5. HolderOwns' /\ HandlersRun' /\ FreeIsOwn' /\ AllWorkFor'
  <2>1. UNCHANGED <<st, ctx, lock, prev, strayed, conn, handler>>
    BY DEF Save, daemonVars, frontVars
  <2>2. HolderOwns' /\ HandlersRun' /\ FreeIsOwn'
    BY <2>1 DEF Inv, HolderOwns, HandlersRun, FreeIsOwn, Serves, Own
  <2>3. AllWorkFor'
    BY <1>2, <2>1, WorksForStays DEF Inv, AllWorkFor
  <2> QED BY <2>2, <2>3
<1> QED BY <1>3, <1>4, <1>5 DEF Inv

LEMMA InvHolds == Spec => []Inv
<1>1. Init => Inv
  BY InitHolds
<1>2. Inv /\ [Next]_vars => Inv'
  <2> SUFFICES ASSUME Inv, [Next]_vars
               PROVE  Inv'
    OBVIOUS
  <2>1. CASE \E d \in Daemons : StartDaemon(d) \/ KillDaemon(d) \/ DaemonStep(d)
    BY <2>1, DaemonSteps, KillDaemonKeeps, AcceptKeeps DEF DaemonStep
  <2>2. CASE \E f \in Fronts : HandlerStep(f)
    BY <2>2, ApplyContextKeeps, HandleKeeps, ReleaseKeeps DEF HandlerStep
  <2>3. CASE \E f \in Fronts : FrontStep(f)
    BY <2>3, FrontKeeps, ControlKeeps DEF FrontStep
  <2>4. CASE \E s \in Savers : Save(s)
    BY <2>4, SaveKeeps
  <2>5. CASE UNCHANGED vars
    BY <2>5, DaemonMoves DEF vars, daemonVars, Inv, Shape, HandlersRun
  <2> QED BY <2>1, <2>2, <2>3, <2>4, <2>5 DEF Next
<1> QED BY <1>1, <1>2, PTL DEF Spec

-----------------------------------------------------------------------------
\* The memories: what the operations in progress know of the files

SaveStages == {"init", "initTruncate", "initWrite", "entry", "fill", "saveRead",
               "saveTruncate", "saveWrite"}
Unlinked == {"removeRead", "removeTruncate", "removeWrite"}
Removing == {"unlink"} \union Unlinked
UseStages == {"resolve", "list", "listGlobal", "get", "remove"} \union Removing

\* Before a save creates its file.
Before == {"none", "init", "initTruncate", "initWrite", "entry"}

\* What was read of the listing is about to be written back.
HasSeen == {"saveTruncate", "saveWrite", "removeTruncate", "removeWrite"}

\* The memories of a directory.
Lists(d, listing) == listing \in SUBSET Ids /\ \A i \in listing : DirOf(i) = d

SaverWork(s) ==
    /\ work[s].at \in SaveStages \union Ended
    /\ work[s].at \in SaveStages => work[s].dir = DirOf(s)
    /\ work[s].op = "none" => work[s].at = "none"

UserWork(f) ==
    /\ work[f].at \in UseStages \union Ended
    /\ work[f].at = "resolve" => work[f].op \in Memory
    /\ work[f].ids \in Seq(Ids)
    /\ {work[f].places.project, work[f].places.global} \subseteq Dirs \union {NoDir}
    /\ work[f].at \in Removing =>
          work[f].ids # <<>> /\ work[f].dir = DirOf(Head(work[f].ids))

\* A save is in the directory of its memory, a removal in that of the memory it removes.
OwnWork(p) ==
    /\ p \in Savers => SaverWork(p)
    /\ p \in Fronts => UserWork(p)
    /\ work[p].at \in HasSeen => Lists(work[p].dir, work[p].seen)

WorkOK == \A p \in Procs : OwnWork(p)

\* A memory has its file and its listing in its own directory.
FilesOK ==
    /\ meta = [d \in Dirs |-> meta[d]]
    /\ \A d \in Dirs : meta[d] \in {NoFile, Empty, Torn} \/ Lists(d, meta[d])
    /\ entries \in [Dirs -> [Ids -> {"none", "empty", "whole"}]]
    /\ \A d \in Dirs, i \in Ids : entries[d][i] # "none" => DirOf(i) = d
    /\ saved \subseteq Ids /\ touched \subseteq Ids /\ removed \subseteq Ids

\* The file of a memory that is being saved ...
SaverFollows(s) ==
    /\ work[s].at \in Before => /\ s \notin saved \union removed
                               /\ \A d \in Dirs : entries[d][s] = "none"
    /\ work[s].at = "fill" => s \in touched \/ entries[DirOf(s)][s] # "none"
    /\ work[s].at \in {"saveRead", "saveTruncate", "saveWrite"} =>
          s \in touched \/ entries[DirOf(s)][s] = "whole"

\* ... or removed.
UserFollows(f) ==
    work[f].at \in Removing =>
        LET i == Head(work[f].ids)
        IN  /\ i \in Savers => work[i].at \notin Before
            /\ work[f].at \in Unlinked => entries[DirOf(i)][i] = "none" /\ i \in touched

FilesFollow ==
    /\ \A s \in Savers : SaverFollows(s)
    /\ \A f \in Fronts : UserFollows(f)

In(p, d) == Busy(p) /\ work[p].dir = d

\* A listing of d that is up to date.
Tells(d, listing) ==
    \A i \in Ids : DirOf(i) = d =>
        /\ i \in saved \ touched => i \in listing
        /\ i \in removed => i \notin listing

\* The directory tells the truth while nobody writes its listing ...
Truthful(d) ==
    /\ \A i \in Ids : DirOf(i) = d =>
         /\ i \in saved \ touched => entries[d][i] = "whole"
         /\ i \in removed => entries[d][i] = "none"
    /\ Listed(d) => Tells(d, meta[d])
    /\ meta[d] = NoFile => Tells(d, {})

\* ... and whoever writes it has seen the truth.
Knows(p, d) ==
    /\ p \in Savers => p \notin removed
    /\ work[p].at = "initTruncate" => meta[d] = NoFile
    /\ work[p].at = "initWrite" => meta[d] = Empty /\ Tells(d, {})
    /\ work[p].at \in HasSeen => Tells(d, work[p].seen)
    /\ work[p].at \in {"saveWrite", "removeWrite"} => meta[d] = Empty

\* As long as operations in a directory come one after the other.
Serial ==
    \A d \in Dirs \ overlap :
        /\ Truthful(d)
        /\ \A p \in Procs : In(p, d) => /\ Knows(p, d)
                                        /\ \A q \in Procs \ {p} : ~In(q, d)

MemInv == WorkShape /\ WorkOK /\ FilesOK /\ FilesFollow /\ Serial

\* Process p has gone on: nobody else has, and in a directory without an overlap it is
\* the only one now.
Moved(p) ==
    /\ WorkShape'
    /\ \A q \in Procs \ {p} : work'[q] = work[q]
    /\ \A d \in Dirs \ overlap' :
          d \notin overlap /\ (In(p, d)' => \A q \in Procs \ {p} : ~In(q, d))

\* The files of d are left alone by p, unless it is in d.
Spares(p, d) ==
    ~In(p, d) =>
        /\ meta'[d] = meta[d]
        /\ entries'[d] = entries[d]
        /\ \A i \in Ids : DirOf(i) = d => /\ i \in saved' <=> i \in saved
                                          /\ i \in touched' <=> i \in touched
                                          /\ i \in removed' <=> i \in removed

\* Every memory has its directory.
LEMMA DirOfIs ==
    ASSUME NEW i \in Ids
    PROVE  DirOf(i) \in Dirs
<1>1. CASE i \in Old
  BY <1>1, MemoryAssumption DEF MemoryAssumption, DirOf
<1>2. CASE i \notin Old
  <2> DEFINE c == Context[i]
  <2>1. c \in Contexts
    BY <1>2, MemoryAssumption DEF MemoryAssumption, Ids, Procs
  <2>2. c.cwd \in Cwds \union {NoCwd} /\ c.home \in Homes
    BY <2>1 DEF Contexts
  <2> HIDE DEF c
  <2>3. SaveDir(c) \in Dirs
    BY <2>2, MemoryAssumption DEF MemoryAssumption, SaveDir
  <2> QED BY <1>2, <2>3 DEF DirOf, c
<1> QED BY <1>1, <1>2

\* A step of a process is the move of that process.
LEMMA GoesOn ==
    ASSUME WorkShape, NEW p \in Procs, NEW w, IsOperation(w), Goes(p, w)
    PROVE  Moved(p) /\ work'[p] = w
<1>1. WorkShape' /\ work'[p] = w /\ \A q \in Procs \ {p} : work'[q] = work[q]
  BY GoesTo
<1>2. ASSUME NEW d \in Dirs \ overlap'
      PROVE  d \notin overlap /\ (In(p, d)' => \A q \in Procs \ {p} : ~In(q, d))
  BY <1>1, <1>2 DEF Goes, In, Busy
<1> QED BY <1>1, <1>2 DEF Moved

\* The fields of an operation that goes to another place.
Same(p) ==
    /\ work'[p].op = work[p].op /\ work'[p].ids = work[p].ids
    /\ work'[p].dir = work[p].dir /\ work'[p].places = work[p].places
    /\ work'[p].seen = work[p].seen

LEMMA AtMoves ==
    ASSUME WorkShape, NEW p \in Procs, NEW place, At(p, place)
    PROVE  Moved(p) /\ work'[p].at = place /\ Same(p)
<1> DEFINE v == [work[p] EXCEPT !.at = place]
<1>1. IsOperation(work[p])
  BY DEF WorkShape
<1>2. /\ IsOperation(v) /\ v.at = place /\ v.op = work[p].op /\ v.ids = work[p].ids
      /\ v.dir = work[p].dir /\ v.places = work[p].places /\ v.seen = work[p].seen
  BY <1>1 DEF IsOperation, Fields
<1>3. Goes(p, v)
  BY DEF At
<1> HIDE DEF v
<1> QED BY <1>2, <1>3, GoesOn DEF Same

\* The invariant is kept when a process goes on if it is for what the process is in and
\* knows, and others are spared.
LEMMA MemKept ==
    ASSUME MemInv, NEW p \in Procs, Moved(p), OwnWork(p)', FilesOK', FilesFollow',
           \A d \in Dirs \ overlap' :
              /\ Spares(p, d)
              /\ In(p, d) => Truthful(d)'
              /\ In(p, d)' => Knows(p, d)'
    PROVE  MemInv'
<1>1. WorkShape' /\ \A q \in Procs \ {p} : work'[q] = work[q]
  BY DEF Moved
<1>2. WorkOK'
  <2> SUFFICES ASSUME NEW q \in Procs \ {p}
               PROVE  OwnWork(q)'
    BY DEF WorkOK
  <2>1. work'[q] = work[q] /\ OwnWork(q)
    BY <1>1 DEF MemInv, WorkOK
  <2> QED BY <2>1 DEF OwnWork, SaverWork, UserWork
<1>3. Serial'
  <2> SUFFICES ASSUME NEW d \in Dirs \ overlap'
               PROVE  /\ Truthful(d)'
                      /\ \A q \in Procs : In(q, d)' => /\ Knows(q, d)'
                                                       /\ \A r \in Procs \ {q} : ~In(r, d)'
    BY DEF Serial
  <2>1. /\ d \notin overlap
        /\ In(p, d)' => \A q \in Procs \ {p} : ~In(q, d)
    BY DEF Moved
  <2>2. /\ Truthful(d)
        /\ \A q \in Procs : In(q, d) => Knows(q, d) /\ \A r \in Procs \ {q} : ~In(r, d)
    BY <2>1 DEF MemInv, Serial
  <2>3. \A q \in Procs \ {p} : In(q, d)' <=> In(q, d)
    BY <1>1 DEF In, Busy
  <2>4. Truthful(d)'
    BY <2>2 DEF Spares, Truthful, Tells, Listed, Unreadable
  <2>5. ASSUME NEW q \in Procs, In(q, d)', NEW r \in Procs \ {q}
        PROVE  ~In(r, d)'
    BY <2>1, <2>2, <2>3, <2>5
  <2>6. ASSUME NEW q \in Procs \ {p}, In(q, d)'
        PROVE  Knows(q, d)'
    <3>1. Knows(q, d) /\ ~In(p, d) /\ work'[q] = work[q]
      BY <1>1, <2>2, <2>3, <2>6
    <3>2. q \in Savers => DirOf(q) = d /\ q \in Ids
      BY <2>3, <2>6 DEF MemInv, WorkOK, OwnWork, SaverWork, In, Busy, Ids
    <3> QED BY <3>1, <3>2 DEF Spares, Knows, Tells
  <2> QED BY <2>4, <2>5, <2>6
<1> QED BY <1>1, <1>2, <1>3 DEF MemInv

\* What the others need to find of their files is there after a step of p that removes a
\* file, or creates that of p, only.
LEMMA FollowKept ==
    ASSUME MemInv, NEW p \in Procs, Moved(p), touched \subseteq touched',
           p \in Savers => SaverFollows(p)',
           p \in Fronts => UserFollows(p)',
           \A s \in Savers : work'[s].at \in Before => work[s].at \in Before,
           \A s \in Savers \ {p} : s \in saved' \union removed' =>
                s \in saved \union removed \/ work[s].at \notin Before,
           \A d \in Dirs, i \in Ids \ {p} :
                \/ entries'[d][i] = entries[d][i]
                \/ entries'[d][i] = "none" /\ i \in touched',
           \A d \in Dirs, i \in Ids : entries[d][i] = "none" =>
                entries'[d][i] = "none" \/ (i \in Savers /\ work[i].at \in Before)
    PROVE  FilesFollow'
<1>1. ASSUME NEW s \in Savers \ {p}
      PROVE  SaverFollows(s)'
  <2>1. /\ work'[s] = work[s] /\ SaverFollows(s) /\ s \in Ids \ {p}
        /\ DirOf(s) \in Dirs
    BY DirOfIs DEF Moved, MemInv, FilesFollow, Procs, Ids
  <2> QED BY <2>1 DEF SaverFollows, Before
<1>2. ASSUME NEW f \in Fronts \ {p}, work[f].at \in Removing
      PROVE  UserFollows(f)'
  <2> DEFINE i == Head(work[f].ids)
  <2>1. work'[f] = work[f] /\ UserFollows(f) /\ UserWork(f)
    BY DEF Moved, MemInv, FilesFollow, WorkOK, OwnWork, Procs
  <2>2. i \in Ids /\ DirOf(i) \in Dirs
    BY <1>2, <2>1, DirOfIs DEF UserWork
  <2>3. /\ i \in Savers => work[i].at \notin Before /\ work'[i].at \notin Before
        /\ work[f].at \in Unlinked => entries[DirOf(i)][i] = "none" /\ i \in touched
    BY <1>2, <2>1 DEF UserFollows
  <2> QED BY <2>1, <2>2, <2>3 DEF UserFollows
<1>3. ASSUME NEW f \in Fronts \ {p}, work[f].at \notin Removing
      PROVE  UserFollows(f)'
  <2>1. work'[f] = work[f]
    BY DEF Moved, Procs
  <2> QED BY <1>3, <2>1 DEF UserFollows
<1> QED BY <1>1, <1>2, <1>3 DEF FilesFollow

FilesSame == UNCHANGED <<meta, entries, saved, touched, removed>>

\* A step that changes no file.
LEMMA QuietKept ==
    ASSUME MemInv, NEW p \in Procs, Moved(p), FilesSame, OwnWork(p)',
           p \in Savers => SaverFollows(p)',
           p \in Fronts => UserFollows(p)',
           \A s \in Savers : work'[s].at \in Before => work[s].at \in Before,
           \A d \in Dirs \ overlap' : In(p, d)' => Knows(p, d)'
    PROVE  MemInv'
<1>1. FilesOK'
  BY DEF MemInv, FilesOK, FilesSame
<1>2. FilesFollow'
  BY FollowKept DEF FilesSame
<1>3. ASSUME NEW d \in Dirs \ overlap'
      PROVE  Spares(p, d) /\ (In(p, d) => Truthful(d)')
  <2>1. Truthful(d)
    BY DEF Moved, MemInv, Serial
  <2> QED BY <2>1 DEF FilesSame, Spares, Truthful, Tells, Listed, Unreadable
<1> QED BY <1>1, <1>2, <1>3, MemKept

\* What a process that saves has of the invariant.
LEMMA SaverHas ==
    ASSUME MemInv, NEW s \in Savers
    PROVE  /\ s \in Procs /\ s \notin Fronts /\ s \in Ids
           /\ DirOf(s) = SaveDir(Context[s]) /\ DirOf(s) \in Dirs
           /\ WorkShape /\ SaverWork(s) /\ SaverFollows(s)
           /\ work[s].at \in HasSeen => Lists(work[s].dir, work[s].seen)
  BY DirOfIs, MemoryAssumption
  DEF MemoryAssumption, MemInv, WorkOK, OwnWork, FilesFollow, Procs, Ids, DirOf

\* What a process that removes has of it.
LEMMA FrontHas ==
    ASSUME MemInv, NEW f \in Fronts
    PROVE  /\ f \in Procs /\ f \notin Savers
           /\ WorkShape /\ UserWork(f) /\ UserFollows(f)
           /\ work[f].at \in HasSeen => Lists(work[f].dir, work[f].seen)
           /\ work[f].ids # <<>> => Head(work[f].ids) \in Ids
                                    /\ Tail(work[f].ids) \in Seq(Ids)
<1>1. /\ f \in Procs /\ f \notin Savers
      /\ WorkShape /\ UserWork(f) /\ UserFollows(f)
      /\ work[f].at \in HasSeen => Lists(work[f].dir, work[f].seen)
  BY MemoryAssumption DEF MemoryAssumption, MemInv, WorkOK, OwnWork, FilesFollow, Procs
<1>2. work[f].ids \in Seq(Ids)
  BY <1>1 DEF UserWork
<1> QED BY <1>1, <1>2

\* The listing that is there is of the directory.
LEMMA ListingIs ==
    ASSUME MemInv, NEW d \in Dirs, meta[d] \notin {NoFile, Empty, Torn}
    PROVE  Lists(d, meta[d])
  BY DEF MemInv, FilesOK

\* A directory without an overlap tells the truth, and the process in it knows it.
LEMMA InKnows ==
    ASSUME MemInv, NEW p \in Procs, Moved(p), NEW d \in Dirs \ overlap'
    PROVE  Truthful(d) /\ (In(p, d) => Knows(p, d))
  BY DEF Moved, MemInv, Serial

\* A save begins in the directory of its memory.
LEMMA StartSaveMem ==
    ASSUME MemInv, NEW s \in Savers, StartSave(s)
    PROVE  MemInv'
<1> DEFINE v == [Idle EXCEPT !.op = "save", !.at = "init", !.ids = <<s>>,
                             !.dir = SaveDir(Context[s])]
<1>1. IsOperation(v) /\ v.op = "save" /\ v.at = "init" /\ v.dir = SaveDir(Context[s])
  BY DEF Idle, IsOperation, Fields
<1>2. Goes(s, v) /\ FilesSame /\ work[s].op = "none"
  BY DEF StartSave, FilesSame
<1> HIDE DEF v
<1>3. Moved(s) /\ work'[s] = v
  BY <1>1, <1>2, GoesOn, SaverHas
<1>4. work[s].at \in Before /\ s \notin saved \union removed
      /\ \A d \in Dirs : entries[d][s] = "none"
  BY <1>2, SaverHas DEF SaverWork, SaverFollows, Before
<1>5. OwnWork(s)'
  BY <1>1, <1>3, SaverHas DEF OwnWork, SaverWork, SaveStages, HasSeen
<1>6. SaverFollows(s)'
  BY <1>1, <1>2, <1>3, <1>4 DEF SaverFollows, FilesSame, Before
<1>7. \A t \in Savers : work'[t].at \in Before => work[t].at \in Before
  BY <1>3, <1>4 DEF Moved, Procs
<1>8. \A d \in Dirs \ overlap' : In(s, d)' => Knows(s, d)'
  BY <1>1, <1>2, <1>3, <1>4 DEF Knows, FilesSame, HasSeen
<1> QED BY <1>2, <1>3, <1>5, <1>6, <1>7, <1>8, SaverHas, QuietKept

LEMMA InitDirMem ==
    ASSUME MemInv, NEW s \in Savers, InitDir(s)
    PROVE  MemInv'
<1> DEFINE place == IF meta[work[s].dir] = NoFile THEN "initTruncate" ELSE "entry"
<1>1. FilesSame /\ work[s].at = "init" /\ At(s, place)
  BY DEF InitDir, FilesSame
<1>2. place \in {"initTruncate", "entry"} /\ (place = "initTruncate" => meta[work[s].dir] = NoFile)
  OBVIOUS
<1> HIDE DEF place
<1>3. Moved(s) /\ work'[s].at = place /\ Same(s)
  BY <1>1, AtMoves, SaverHas
<1>4. work[s].at \in Before /\ s \notin saved \union removed
      /\ \A d \in Dirs : entries[d][s] = "none"
  BY <1>1, SaverHas DEF SaverFollows, Before
<1>5. OwnWork(s)'
  BY <1>1, <1>2, <1>3, SaverHas DEF OwnWork, SaverWork, SaveStages, HasSeen, Same
<1>6. SaverFollows(s)'
  BY <1>1, <1>2, <1>3, <1>4 DEF SaverFollows, FilesSame, Before
<1>7. \A t \in Savers : work'[t].at \in Before => work[t].at \in Before
  BY <1>3, <1>4 DEF Moved, Procs
<1>8. \A d \in Dirs \ overlap' : In(s, d)' => Knows(s, d)'
  BY <1>1, <1>2, <1>3, <1>4 DEF Knows, FilesSame, HasSeen, Same, In
<1> QED BY <1>1, <1>3, <1>5, <1>6, <1>7, <1>8, SaverHas, QuietKept

\* An operation that ends changes nothing by that.
LEMMA EndMem ==
    ASSUME MemInv, NEW p \in Procs, NEW place \in {"ok", "err", "killed"},
           At(p, place), Busy(p), FilesSame
    PROVE  MemInv'
<1>1. Moved(p) /\ work'[p].at = place /\ Same(p)
  BY AtMoves DEF MemInv
<1>2. OwnWork(p)'
  BY <1>1 DEF MemInv, WorkOK, OwnWork, SaverWork, UserWork, SaveStages, UseStages, Ended,
              HasSeen, Removing, Unlinked, Same, Busy
<1>3. /\ p \in Savers => SaverFollows(p)'
      /\ p \in Fronts => UserFollows(p)'
  BY <1>1 DEF SaverFollows, UserFollows, Before, Removing, Unlinked
<1>4. \A t \in Savers : work'[t].at \in Before => work[t].at \in Before
  BY <1>1 DEF Moved, Procs, Before
<1>5. \A d \in Dirs \ overlap' : ~In(p, d)'
  BY <1>1 DEF In, Busy, Ended
<1> QED BY <1>1, <1>2, <1>3, <1>4, <1>5, QuietKept

\* A kill, wherever the operation is, leaves the files to the next one.
LEMMA KilledMem ==
    ASSUME MemInv, NEW p \in Procs, Killed(p)
    PROVE  MemInv'
  BY EndMem DEF Killed, FilesSame

\* The save reads the listing it will write back.
LEMMA SaveReadMem ==
    ASSUME MemInv, NEW s \in Savers, SaveRead(s)
    PROVE  MemInv'
<1>1. FilesSame /\ work[s].at = "saveRead" /\ Busy(s) /\ work[s].dir = DirOf(s)
  BY SaverHas DEF SaveRead, FilesSame, Busy, Ended, SaverWork, SaveStages
<1>2. CASE Unreadable(work[s].dir)
  BY <1>1, <1>2, EndMem, SaverHas DEF SaveRead
<1>3. CASE ~Unreadable(work[s].dir)
  <2> DEFINE listing == IF meta[DirOf(s)] = NoFile THEN {} ELSE meta[DirOf(s)]
             v == [work[s] EXCEPT !.at = "saveTruncate", !.seen = listing]
  <2>0. IsOperation(work[s])
    BY SaverHas DEF WorkShape
  <2>1. IsOperation(v) /\ v.op = work[s].op /\ v.at = "saveTruncate"
        /\ v.dir = work[s].dir /\ v.seen = listing
    BY <2>0 DEF IsOperation, Fields
  <2>2. Goes(s, v)
    BY <1>1, <1>3 DEF SaveRead
  <2>3. Lists(DirOf(s), listing)
    BY <1>1, <1>3, SaverHas, ListingIs DEF Unreadable, Lists
  <2>4. \A d \in Dirs \ overlap' : Truthful(d) /\ d = DirOf(s) => Tells(d, listing)
    BY <1>1, <1>3 DEF Truthful, Listed
  <2> HIDE DEF v, listing
  <2>5. Moved(s) /\ work'[s] = v
    BY <2>1, <2>2, GoesOn, SaverHas
  <2>6. OwnWork(s)'
    BY <1>1, <2>1, <2>3, <2>5, SaverHas
    DEF OwnWork, SaverWork, SaveStages, HasSeen, Lists, Busy, Ended
  <2>7. SaverFollows(s)'
    BY <1>1, <2>1, <2>5, SaverHas DEF SaverFollows, FilesSame, Before
  <2>8. \A t \in Savers : work'[t].at \in Before => work[t].at \in Before
    BY <2>1, <2>5 DEF Moved, Procs, Before
  <2>9. ASSUME NEW d \in Dirs \ overlap', In(s, d)'
        PROVE  Knows(s, d)'
    <3>1. d = DirOf(s) /\ Truthful(d) /\ Knows(s, d)
      BY <1>1, <2>1, <2>5, <2>9, InKnows, SaverHas DEF In
    <3> QED BY <1>1, <2>1, <2>4, <2>5, <3>1 DEF Knows, FilesSame, Tells
  <2> QED BY <1>1, <2>5, <2>6, <2>7, <2>8, <2>9, SaverHas, QuietKept
<1> QED BY <1>2, <1>3

\* Only the listing of the process's directory changes.
LEMMA ListingKept ==
    ASSUME MemInv, NEW p \in Procs, Moved(p), OwnWork(p)', FilesFollow',
           UNCHANGED <<entries, touched>>, saved' \subseteq Ids, removed' \subseteq Ids,
           NEW D \in Dirs, Busy(p), work[p].dir = D,
           \A i \in Ids : DirOf(i) # D => /\ i \in saved' <=> i \in saved
                                          /\ i \in removed' <=> i \in removed,
           NEW m, meta' = [meta EXCEPT ![D] = m],
           m \in {Empty, Torn} \/ Lists(D, m),
           D \notin overlap' => Truthful(D)',
           \A d \in Dirs \ overlap' : In(p, d)' => Knows(p, d)'
    PROVE  MemInv'
<1>1. FilesOK'
  BY DEF MemInv, FilesOK, Lists
<1>2. ASSUME NEW d \in Dirs \ overlap'
      PROVE  Spares(p, d) /\ (In(p, d) => Truthful(d)')
  <2>1. In(p, d) <=> d = D
    BY DEF In
  <2>2. Spares(p, d)
    BY <2>1 DEF MemInv, FilesOK, Spares
  <2> QED BY <2>1, <2>2
<1> QED BY <1>1, <1>2, MemKept

\* A write of a listing to a file that was emptied leaves the listing.
LEMMA WritesIs ==
    ASSUME MemInv, NEW d \in Dirs, NEW listing, Writes(d, listing)
    PROVE  \E m \in {listing, Torn} : /\ meta' = [meta EXCEPT ![d] = m]
                                      /\ meta[d] = Empty => m = listing
  BY DEF Writes

\* The first listing of a directory, emptied and written.
LEMMA InitTruncateMem ==
    ASSUME MemInv, NEW s \in Savers, InitTruncate(s)
    PROVE  MemInv'
<1> DEFINE D == DirOf(s)
<1>1. /\ work[s].at = "initTruncate" /\ work[s].dir = D /\ Busy(s) /\ D \in Dirs
      /\ At(s, "initWrite") /\ meta' = [meta EXCEPT ![D] = Empty]
      /\ UNCHANGED <<entries, saved, touched, removed>>
  BY SaverHas DEF InitTruncate, Truncates, SaverWork, SaveStages, Busy, Ended
<1> HIDE DEF D
<1>2. Moved(s) /\ work'[s].at = "initWrite" /\ Same(s)
  BY <1>1, AtMoves, SaverHas
<1>3. OwnWork(s)'
  BY <1>1, <1>2, SaverHas DEF OwnWork, SaverWork, SaveStages, HasSeen, Same
<1>4. SaverFollows(s)'
  BY <1>1, <1>2, SaverHas DEF SaverFollows, Before
<1>5. FilesFollow'
  <2>1. \A t \in Savers : work'[t].at \in Before => work[t].at \in Before
    BY <1>1, <1>2 DEF Moved, Procs, Before
  <2> QED BY <1>1, <1>2, <1>4, <2>1, SaverHas, FollowKept
<1>6. ASSUME D \notin overlap'
      PROVE  Truthful(D)' /\ Knows(s, D)'
  <2>1. Truthful(D) /\ Knows(s, D) /\ meta'[D] = Empty
    BY <1>1, <1>2, <1>6, InKnows, SaverHas DEF In, MemInv, FilesOK
  <2>2. NoFile # Empty
    BY MemoryAssumption DEF MemoryAssumption
  <2> QED BY <1>1, <1>2, <2>1, <2>2
          DEF Truthful, Knows, Tells, Listed, Unreadable, HasSeen
<1>7. \A d \in Dirs \ overlap' : In(s, d)' => Knows(s, d)'
  BY <1>1, <1>2, <1>6 DEF In, Same
<1> QED BY <1>1, <1>2, <1>3, <1>5, <1>6, <1>7, SaverHas, ListingKept DEF MemInv, FilesOK

LEMMA InitWriteMem ==
    ASSUME MemInv, NEW s \in Savers, InitWrite(s)
    PROVE  MemInv'
<1> DEFINE D == DirOf(s)
<1>1. /\ work[s].at = "initWrite" /\ work[s].dir = D /\ Busy(s) /\ D \in Dirs
      /\ At(s, "entry") /\ Writes(D, {})
      /\ UNCHANGED <<entries, saved, touched, removed>>
  BY SaverHas DEF InitWrite, SaverWork, SaveStages, Busy, Ended
<1> HIDE DEF D
<1>0. PICK m \in {{}, Torn} : /\ meta' = [meta EXCEPT ![D] = m]
                              /\ meta[D] = Empty => m = {}
  BY <1>1, WritesIs
<1>2. Moved(s) /\ work'[s].at = "entry" /\ Same(s)
  BY <1>1, AtMoves, SaverHas
<1>3. OwnWork(s)'
  BY <1>1, <1>2, SaverHas DEF OwnWork, SaverWork, SaveStages, HasSeen, Same
<1>4. SaverFollows(s)'
  BY <1>1, <1>2, SaverHas DEF SaverFollows, Before
<1>5. FilesFollow'
  <2>1. \A t \in Savers : work'[t].at \in Before => work[t].at \in Before
    BY <1>1, <1>2 DEF Moved, Procs, Before
  <2> QED BY <1>1, <1>2, <1>4, <2>1, SaverHas, FollowKept
<1>6. ASSUME D \notin overlap'
      PROVE  Truthful(D)' /\ Knows(s, D)'
  <2>1. Truthful(D) /\ Knows(s, D)
    BY <1>1, <1>2, <1>6, InKnows, SaverHas DEF In
  <2>2. meta'[D] = {} /\ Tells(D, {})
    BY <1>0, <1>1, <2>1 DEF Knows, MemInv, FilesOK
  <2> QED BY <1>1, <1>2, <2>1, <2>2 DEF Truthful, Knows, Tells, HasSeen
<1>7. \A d \in Dirs \ overlap' : In(s, d)' => Knows(s, d)'
  BY <1>1, <1>2, <1>6 DEF In, Same
<1>8. m \in {Empty, Torn} \/ Lists(D, m)
  BY DEF Lists
<1>9. saved' \subseteq Ids /\ removed' \subseteq Ids
  BY <1>1 DEF MemInv, FilesOK
<1> QED BY <1>0, <1>1, <1>2, <1>3, <1>5, <1>6, <1>7, <1>8, <1>9, SaverHas, ListingKept

\* The listing with the new memory, emptied and written.
LEMMA SaveTruncateMem ==
    ASSUME MemInv, NEW s \in Savers, SaveTruncate(s)
    PROVE  MemInv'
<1> DEFINE D == DirOf(s)
<1>1. /\ work[s].at = "saveTruncate" /\ work[s].dir = D /\ Busy(s) /\ D \in Dirs
      /\ At(s, "saveWrite") /\ meta' = [meta EXCEPT ![D] = Empty]
      /\ UNCHANGED <<entries, saved, touched, removed>>
      /\ Lists(D, work[s].seen)
  BY SaverHas DEF SaveTruncate, Truncates, SaverWork, SaveStages, Busy, Ended, HasSeen
<1> HIDE DEF D
<1>2. Moved(s) /\ work'[s].at = "saveWrite" /\ Same(s)
  BY <1>1, AtMoves, SaverHas
<1>3. OwnWork(s)'
  BY <1>1, <1>2, SaverHas DEF OwnWork, SaverWork, SaveStages, HasSeen, Same, Lists
<1>4. SaverFollows(s)'
  BY <1>1, <1>2, SaverHas DEF SaverFollows, Before
<1>5. FilesFollow'
  <2>1. \A t \in Savers : work'[t].at \in Before => work[t].at \in Before
    BY <1>1, <1>2 DEF Moved, Procs, Before
  <2> QED BY <1>1, <1>2, <1>4, <2>1, SaverHas, FollowKept
<1>6. ASSUME D \notin overlap'
      PROVE  Truthful(D)' /\ Knows(s, D)'
  <2>1. Truthful(D) /\ Knows(s, D) /\ meta'[D] = Empty
    BY <1>1, <1>2, <1>6, InKnows, SaverHas DEF In, MemInv, FilesOK
  <2>2. NoFile # Empty
    BY MemoryAssumption DEF MemoryAssumption
  <2>3. Tells(D, work[s].seen)
    BY <1>1, <2>1 DEF Knows, HasSeen
  <2> QED BY <1>1, <1>2, <2>1, <2>2, <2>3
          DEF Truthful, Knows, Tells, Listed, Unreadable, HasSeen, Same
<1>7. \A d \in Dirs \ overlap' : In(s, d)' => Knows(s, d)'
  BY <1>1, <1>2, <1>6 DEF In, Same
<1> QED BY <1>1, <1>2, <1>3, <1>5, <1>6, <1>7, SaverHas, ListingKept DEF MemInv, FilesOK

LEMMA SaveWriteMem ==
    ASSUME MemInv, NEW s \in Savers, SaveWrite(s)
    PROVE  MemInv'
<1> DEFINE D == DirOf(s)
           listing == work[s].seen \union {s}
<1>1. /\ work[s].at = "saveWrite" /\ work[s].dir = D /\ Busy(s) /\ D \in Dirs
      /\ At(s, "ok") /\ Writes(D, listing)
      /\ UNCHANGED <<entries, touched, removed>> /\ saved' = saved \union {s}
      /\ Lists(D, listing)
  BY SaverHas DEF SaveWrite, SaverWork, SaveStages, Busy, Ended, HasSeen, Lists
<1>0. PICK m \in {listing, Torn} : /\ meta' = [meta EXCEPT ![D] = m]
                                   /\ meta[D] = Empty => m = listing
  BY <1>1, WritesIs
<1>2. Moved(s) /\ work'[s].at = "ok" /\ Same(s)
  BY <1>1, AtMoves, SaverHas
<1>3. OwnWork(s)'
  BY <1>1, <1>2, SaverHas DEF OwnWork, SaverWork, SaveStages, HasSeen, Ended, Same
<1>4. SaverFollows(s)'
  BY <1>1, <1>2, SaverHas DEF SaverFollows, Before
<1>5. FilesFollow'
  <2>1. \A t \in Savers : work'[t].at \in Before => work[t].at \in Before
    BY <1>1, <1>2 DEF Moved, Procs, Before
  <2> QED BY <1>1, <1>2, <1>4, <2>1, SaverHas, FollowKept
<1>6. ASSUME D \notin overlap'
      PROVE  Truthful(D)'
  <2>1. Truthful(D) /\ Knows(s, D)
    BY <1>1, <1>2, <1>6, InKnows, SaverHas DEF In
  <2>2. meta'[D] = listing /\ Tells(D, work[s].seen) /\ s \notin removed
    BY <1>0, <1>1, <2>1 DEF Knows, HasSeen, MemInv, FilesOK
  <2>3. s \in touched \/ entries[D][s] = "whole"
    BY <1>1, SaverHas DEF SaverFollows
  <2>4. Tells(D, listing)'
    BY <1>1, <1>2, <2>2 DEF Tells, Same
  <2>5. meta'[D] # NoFile
    BY <1>1, <2>2, MemoryAssumption DEF MemoryAssumption, Lists
  <2>6. Tells(D, meta[D])'
    BY <1>1, <2>2 DEF Tells
  <2> QED BY <1>1, <2>1, <2>3, <2>5, <2>6 DEF Truthful
<1>7. \A d \in Dirs \ overlap' : ~In(s, d)'
  BY <1>2 DEF In, Busy, Ended
<1>8. saved' \subseteq Ids /\ removed' \subseteq Ids
  BY <1>1, SaverHas DEF MemInv, FilesOK
<1> QED
  <2> HIDE DEF D, listing
  <2>1. \A i \in Ids : DirOf(i) # D => /\ i \in saved' <=> i \in saved
                                       /\ i \in removed' <=> i \in removed
    BY <1>1 DEF D
  <2> QED BY <1>0, <1>1, <1>2, <1>3, <1>5, <1>6, <1>7, <1>8, <2>1, SaverHas, ListingKept

\* The file of the memory, created and filled.
LEMMA CreateEntryMem ==
    ASSUME MemInv, NEW s \in Savers, CreateEntry(s)
    PROVE  MemInv'
<1> DEFINE D == DirOf(s)
<1>1. /\ work[s].at = "entry" /\ work[s].dir = D /\ Busy(s) /\ D \in Dirs
      /\ At(s, "fill") /\ entries' = [entries EXCEPT ![D][s] = "empty"]
      /\ UNCHANGED <<meta, saved, touched, removed>>
      /\ s \notin saved \union removed
  BY SaverHas DEF CreateEntry, SaverWork, SaveStages, Busy, Ended, SaverFollows, Before
<1>2. Moved(s) /\ work'[s].at = "fill" /\ Same(s)
  BY <1>1, AtMoves, SaverHas
<1>3. OwnWork(s)'
  BY <1>1, <1>2, SaverHas DEF OwnWork, SaverWork, SaveStages, HasSeen, Same
<1>4. /\ entries'[D][s] = "empty"
      /\ \A d \in Dirs, i \in Ids : d # D \/ i # s => entries'[d][i] = entries[d][i]
      /\ entries' \in [Dirs -> [Ids -> {"none", "empty", "whole"}]]
  BY <1>1, SaverHas DEF MemInv, FilesOK
<1>5. FilesOK'
  BY <1>1, <1>4 DEF MemInv, FilesOK, Lists
<1> HIDE DEF D
<1>6. SaverFollows(s)'
  BY <1>1, <1>2, <1>4 DEF SaverFollows, Before, D
<1>7. FilesFollow'
  <2>1. \A t \in Savers : work'[t].at \in Before => work[t].at \in Before
    BY <1>1, <1>2 DEF Moved, Procs, Before
  <2>2. work[s].at \in Before
    BY <1>1 DEF Before
  <2> QED BY <1>1, <1>2, <1>4, <1>6, <2>1, <2>2, SaverHas, FollowKept
<1>8. ASSUME NEW d \in Dirs \ overlap'
      PROVE  Spares(s, d) /\ (In(s, d) => Truthful(d)') /\ (In(s, d)' => Knows(s, d)')
  <2>1. Truthful(d) /\ (In(s, d) <=> d = D) /\ (In(s, d)' => d = D)
    BY <1>1, <1>2, InKnows, SaverHas DEF In, Same
  <2>2. d # D => entries'[d] = entries[d]
    BY <1>1
  <2>3. \A i \in Ids : i # s => entries'[d][i] = entries[d][i]
    BY <1>4
  <2> QED BY <1>1, <1>2, <2>1, <2>2, <2>3
          DEF Spares, Truthful, Tells, Knows, Listed, Unreadable, HasSeen
<1> QED BY <1>2, <1>3, <1>5, <1>7, <1>8, SaverHas, MemKept

LEMMA FillEntryMem ==
    ASSUME MemInv, NEW s \in Savers, FillEntry(s)
    PROVE  MemInv'
<1> DEFINE D == DirOf(s)
           new == IF entries[D][s] = "none" THEN "none" ELSE "whole"
<1>1. /\ work[s].at = "fill" /\ work[s].dir = D /\ Busy(s) /\ D \in Dirs
      /\ At(s, "saveRead") /\ entries' = [entries EXCEPT ![D][s] = new]
      /\ UNCHANGED <<meta, saved, touched, removed>>
      /\ s \in touched \/ entries[D][s] # "none"
  BY SaverHas DEF FillEntry, SaverWork, SaveStages, Busy, Ended, SaverFollows
<1>2. Moved(s) /\ work'[s].at = "saveRead" /\ Same(s)
  BY <1>1, AtMoves, SaverHas
<1>3. OwnWork(s)'
  BY <1>1, <1>2, SaverHas DEF OwnWork, SaverWork, SaveStages, HasSeen, Same
<1>4. /\ entries'[D][s] = new
      /\ \A d \in Dirs, i \in Ids : d # D \/ i # s => entries'[d][i] = entries[d][i]
      /\ entries' \in [Dirs -> [Ids -> {"none", "empty", "whole"}]]
  BY <1>1, SaverHas DEF MemInv, FilesOK
<1>5. FilesOK'
  BY <1>1, <1>4 DEF MemInv, FilesOK, Lists
<1> HIDE DEF D
<1>6. SaverFollows(s)'
  BY <1>1, <1>2, <1>4 DEF SaverFollows, Before, D
<1>7. FilesFollow'
  <2>1. \A t \in Savers : work'[t].at \in Before => work[t].at \in Before
    BY <1>1, <1>2 DEF Moved, Procs, Before
  <2>2. \A d \in Dirs, i \in Ids : entries[d][i] = "none" => entries'[d][i] = "none"
    BY <1>4
  <2> QED BY <1>1, <1>2, <1>4, <1>6, <2>1, <2>2, SaverHas, FollowKept
<1>8. ASSUME NEW d \in Dirs \ overlap'
      PROVE  Spares(s, d) /\ (In(s, d) => Truthful(d)') /\ (In(s, d)' => Knows(s, d)')
  <2>1. Truthful(d) /\ (In(s, d) <=> d = D) /\ (In(s, d)' => d = D)
        /\ (In(s, d) => s \notin removed)
    BY <1>1, <1>2, InKnows, SaverHas DEF In, Same, Knows
  <2>2. d # D => entries'[d] = entries[d]
    BY <1>1
  <2>3. \A i \in Ids : i # s => entries'[d][i] = entries[d][i]
    BY <1>4
  <2>4. entries[d][s] = "whole" => entries'[d][s] = "whole"
    BY <1>4, <2>2, SaverHas
  <2> QED BY <1>1, <1>2, <2>1, <2>2, <2>3, <2>4
          DEF Spares, Truthful, Tells, Knows, Listed, Unreadable, HasSeen
<1> QED BY <1>2, <1>3, <1>5, <1>7, <1>8, SaverHas, MemKept

\* A save keeps the invariant.
LEMMA SaveMem ==
    ASSUME MemInv, NEW s \in Savers, SaveStep(s)
    PROVE  MemInv'
  BY StartSaveMem, InitDirMem, InitTruncateMem, InitWriteMem, CreateEntryMem, FillEntryMem,
     SaveReadMem, SaveTruncateMem, SaveWriteMem DEF SaveStep

\* A step of a command that changes no file and is not about to write: nothing has to be
\* known for what comes next.
LEMMA LooksKept ==
    ASSUME MemInv, NEW f \in Fronts, NEW w, IsOperation(w), Goes(f, w), FilesSame,
           w.at \in UseStages \union Ended,
           w.at = "resolve" => w.op \in Memory,
           w.ids \in Seq(Ids),
           {w.places.project, w.places.global} \subseteq Dirs \union {NoDir},
           w.at \notin Unlinked,
           w.at = "unlink" => /\ w.ids # <<>> /\ w.dir = DirOf(Head(w.ids))
                              /\ entries[w.dir][Head(w.ids)] # "none"
    PROVE  MemInv'
<1>1. Moved(f) /\ work'[f] = w
  BY GoesOn, FrontHas
<1>2. OwnWork(f)'
  BY <1>1, FrontHas DEF OwnWork, UserWork, Removing, HasSeen, UseStages, Unlinked, Ended
<1>3. \A t \in Savers : work'[t] = work[t]
  BY <1>1, FrontHas DEF Moved, Procs
<1>4. UserFollows(f)'
  <2>1. CASE w.at # "unlink"
    BY <1>1, <2>1 DEF UserFollows, Removing
  <2>2. CASE w.at = "unlink"
    <3> DEFINE i == Head(w.ids)
    <3>1. i \in Ids /\ DirOf(i) \in Dirs
      BY <2>2, DirOfIs
    <3>2. i \in Savers => work[i].at \notin Before
      BY <2>2, <3>1 DEF MemInv, FilesFollow, SaverFollows
    <3> QED BY <1>1, <1>3, <2>2, <3>2 DEF UserFollows, Unlinked
  <2> QED BY <2>1, <2>2
<1>5. \A d : Knows(f, d)'
  BY <1>1, FrontHas DEF Knows, HasSeen, UseStages, Removing, Unlinked, Ended
<1> QED BY <1>1, <1>2, <1>3, <1>4, <1>5, FrontHas, QuietKept

\* A command begins.
LEMMA AskedMem ==
    ASSUME MemInv, NEW f \in Fronts, NEW op \in Memory, NEW ids \in Seq(Ids),
           Goes(f, Asked(op, ids)), FilesSame
    PROVE  MemInv'
<1> DEFINE w == Asked(op, ids)
<1>1. /\ IsOperation(w) /\ w.at = "resolve" /\ w.op = op /\ w.ids = ids
      /\ w.places.project = NoDir /\ w.places.global = NoDir
  BY DEF Asked, Idle, IsOperation, Fields
<1> HIDE DEF w
<1>2. Goes(f, w)
  BY DEF w
<1> QED BY <1>1, <1>2, LooksKept DEF UseStages, Unlinked

\* The steps of a command that only look.
LEMMA ResolveMem ==
    ASSUME MemInv, NEW f \in Fronts, NEW c \in Contexts, Resolve(f, c)
    PROVE  MemInv'
<1> DEFINE w == [work[f] EXCEPT !.at = work[f].op, !.places = Places(c)]
<1>0. IsOperation(work[f])
  BY FrontHas DEF WorkShape
<1>1. /\ IsOperation(w) /\ w.at = work[f].op /\ w.ids = work[f].ids
      /\ w.places = Places(c)
  BY <1>0 DEF IsOperation, Fields
<1>2. Goes(f, w) /\ FilesSame /\ work[f].at = "resolve"
  BY DEF Resolve, FilesSame
<1> HIDE DEF w
<1>3. w.at \in Memory /\ w.ids \in Seq(Ids)
  BY <1>1, <1>2, FrontHas DEF UserWork
<1>4. {w.places.project, w.places.global} \subseteq Dirs \union {NoDir}
  <2>1. c.cwd \in Cwds \union {NoCwd} /\ c.home \in Homes
    BY DEF Contexts
  <2> QED BY <1>1, <2>1, MemoryAssumption DEF MemoryAssumption, Places
<1> QED BY <1>1, <1>2, <1>3, <1>4, LooksKept DEF Memory, UseStages, Unlinked

LEMMA ListMem ==
    ASSUME MemInv, NEW f \in Fronts, List(f)
    PROVE  MemInv'
<1>1. FilesSame /\ Busy(f)
  BY DEF List, FilesSame, Busy, Ended
<1>2. ASSUME NEW place \in {"listGlobal", "ok", "err"}, NEW x,
             Goes(f, [work[f] EXCEPT !.at = place, !.shown = x])
      PROVE  MemInv'
  <2> DEFINE w == [work[f] EXCEPT !.at = place, !.shown = x]
  <2>0. IsOperation(work[f])
    BY FrontHas DEF WorkShape
  <2>1. /\ IsOperation(w) /\ w.at = place /\ w.ids = work[f].ids
        /\ w.places = work[f].places
    BY <2>0 DEF IsOperation, Fields
  <2>2. Goes(f, w)
    BY <1>2
  <2> HIDE DEF w
  <2> QED BY <1>1, <2>1, <2>2, LooksKept, FrontHas DEF UserWork, UseStages, Unlinked, Ended
<1>3. ASSUME NEW place \in {"listGlobal", "ok", "err"}, At(f, place)
      PROVE  MemInv'
  <2> DEFINE w == [work[f] EXCEPT !.at = place]
  <2>0. IsOperation(work[f])
    BY FrontHas DEF WorkShape
  <2>1. /\ IsOperation(w) /\ w.at = place /\ w.ids = work[f].ids
        /\ w.places = work[f].places
    BY <2>0 DEF IsOperation, Fields
  <2>2. Goes(f, w)
    BY <1>3 DEF At
  <2> HIDE DEF w
  <2> QED BY <1>1, <2>1, <2>2, LooksKept, FrontHas DEF UserWork, UseStages, Unlinked, Ended
<1> QED BY <1>2, <1>3 DEF List, Shows

LEMMA GetMem ==
    ASSUME MemInv, NEW f \in Fronts, Get(f)
    PROVE  MemInv'
<1>1. FilesSame /\ Busy(f) /\ work[f].at = "get"
  BY DEF Get, FilesSame, Busy, Ended
<1>2. CASE \E place \in {"ok", "err"} : At(f, place)
  BY <1>1, <1>2, EndMem, FrontHas
<1>3. ASSUME NEW x, work[f].ids # <<>>,
             Goes(f, [work[f] EXCEPT !.ids = Tail(@), !.shown = x])
      PROVE  MemInv'
  <2> DEFINE w == [work[f] EXCEPT !.ids = Tail(@), !.shown = x]
  <2>0. IsOperation(work[f])
    BY FrontHas DEF WorkShape
  <2>1. /\ IsOperation(w) /\ w.at = work[f].at /\ w.ids = Tail(work[f].ids)
        /\ w.places = work[f].places
    BY <2>0 DEF IsOperation, Fields
  <2>2. Goes(f, w)
    BY <1>3
  <2> HIDE DEF w
  <2> QED BY <1>1, <1>3, <2>1, <2>2, LooksKept, FrontHas
          DEF UserWork, UseStages, Unlinked, Ended
<1> QED BY <1>2, <1>3 DEF Get

LEMMA FindEntryMem ==
    ASSUME MemInv, NEW f \in Fronts, FindEntry(f)
    PROVE  MemInv'
<1>1. FilesSame /\ Busy(f) /\ work[f].at = "remove"
  BY DEF FindEntry, FilesSame, Busy, Ended
<1>2. CASE \E place \in {"ok", "err"} : At(f, place)
  BY <1>1, <1>2, EndMem, FrontHas
<1>3. ASSUME NEW d \in {work[f].places.project, work[f].places.global},
             work[f].ids # <<>>, d # NoDir, entries[d][Head(work[f].ids)] # "none",
             Goes(f, [work[f] EXCEPT !.at = "unlink", !.dir = d])
      PROVE  MemInv'
  <2> DEFINE w == [work[f] EXCEPT !.at = "unlink", !.dir = d]
  <2>0. IsOperation(work[f])
    BY FrontHas DEF WorkShape
  <2>1. /\ IsOperation(w) /\ w.at = "unlink" /\ w.ids = work[f].ids
        /\ w.places = work[f].places /\ w.dir = d
    BY <2>0 DEF IsOperation, Fields
  <2>2. Goes(f, w)
    BY <1>3
  <2> HIDE DEF w
  <2>3. d \in Dirs /\ Head(work[f].ids) \in Ids
    BY <1>3, FrontHas DEF UserWork
  <2>4. DirOf(Head(work[f].ids)) = d
    BY <1>3, <2>3 DEF MemInv, FilesOK
  <2> QED BY <1>1, <1>3, <2>1, <2>2, <2>4, LooksKept, FrontHas
          DEF UserWork, UseStages, Unlinked, Removing
<1> QED BY <1>2, <1>3 DEF FindEntry

\* What a removal that has found its file knows.
LEMMA RemovalHas ==
    ASSUME MemInv, NEW f \in Fronts, work[f].at \in Removing, NEW i, i = Head(work[f].ids)
    PROVE  /\ i \in Ids /\ work[f].ids # <<>> /\ work[f].dir = DirOf(i) /\ DirOf(i) \in Dirs
           /\ Busy(f)
           /\ i \in Savers => work[i].at \notin Before
           /\ work[f].at \in Unlinked => entries[DirOf(i)][i] = "none" /\ i \in touched
<1>1. i \in Ids /\ work[f].ids # <<>> /\ work[f].dir = DirOf(i)
  BY FrontHas DEF UserWork
<1>2. Busy(f)
  BY DEF Removing, Unlinked, Busy, Ended
<1>3. UserFollows(f)
  BY FrontHas
<1> QED BY <1>1, <1>2, <1>3, DirOfIs DEF UserFollows

\* A command goes on to its next id.
LEMMA NextIdMoves ==
    ASSUME MemInv, NEW f \in Fronts, work[f].ids # <<>>, NextId(f)
    PROVE  /\ Moved(f) /\ work'[f].at = "remove" /\ work'[f].dir = work[f].dir
           /\ OwnWork(f)' /\ UserFollows(f)'
           /\ \A s \in Savers : work'[s] = work[s]
           /\ \A d : Knows(f, d)'
<1> DEFINE w == [work[f] EXCEPT !.at = "remove", !.ids = Tail(@)]
<1>0. IsOperation(work[f])
  BY FrontHas DEF WorkShape
<1>1. /\ IsOperation(w) /\ w.at = "remove" /\ w.ids = Tail(work[f].ids)
      /\ w.places = work[f].places /\ w.dir = work[f].dir
  BY <1>0 DEF IsOperation, Fields
<1>2. Goes(f, w)
  BY DEF NextId
<1> HIDE DEF w
<1>3. Moved(f) /\ work'[f] = w
  BY <1>1, <1>2, GoesOn, FrontHas
<1>4. OwnWork(f)'
  BY <1>1, <1>3, FrontHas DEF OwnWork, UserWork, UseStages, Removing, Unlinked, HasSeen
<1>5. UserFollows(f)' /\ \A s \in Savers : work'[s] = work[s]
  BY <1>1, <1>3, FrontHas DEF UserFollows, Removing, Unlinked, Moved, Procs
<1>6. \A d : Knows(f, d)'
  BY <1>1, <1>3, FrontHas DEF Knows, HasSeen
<1> QED BY <1>1, <1>3, <1>4, <1>5, <1>6

\* A removal deletes the file, reads the listing and writes it back without the memory.
LEMMA UnlinkMem ==
    ASSUME MemInv, NEW f \in Fronts, Unlink(f)
    PROVE  MemInv'
<1>0. PICK i : i = Head(work[f].ids)
  OBVIOUS
<1> DEFINE D == DirOf(i)
<1>1. work[f].at = "unlink" /\ UNCHANGED <<meta, saved, removed>> /\ At(f, "removeRead")
  BY DEF Unlink
<1>2. /\ i \in Ids /\ work[f].ids # <<>> /\ work[f].dir = D /\ D \in Dirs
      /\ i \in Savers => work[i].at \notin Before
  BY <1>0, <1>1, RemovalHas DEF Removing
<1>3. entries' = [entries EXCEPT ![D][i] = "none"] /\ touched' = touched \union {i}
  BY <1>0, <1>2 DEF Unlink
<1>4. Moved(f) /\ work'[f].at = "removeRead" /\ Same(f)
  BY <1>1, AtMoves, FrontHas
<1>5. OwnWork(f)'
  BY <1>0, <1>2, <1>4, FrontHas
  DEF OwnWork, UserWork, UseStages, Removing, Unlinked, HasSeen, Same
<1>6. /\ entries'[D][i] = "none"
      /\ \A d \in Dirs, j \in Ids : d # D \/ j # i => entries'[d][j] = entries[d][j]
      /\ entries' \in [Dirs -> [Ids -> {"none", "empty", "whole"}]]
  BY <1>2, <1>3 DEF MemInv, FilesOK
<1>7. FilesOK'
  BY <1>1, <1>2, <1>3, <1>6 DEF MemInv, FilesOK, Lists
<1>8. \A s \in Savers : work'[s] = work[s]
  BY <1>4, FrontHas DEF Moved, Procs
<1>9. UserFollows(f)'
  BY <1>0, <1>2, <1>3, <1>4, <1>6, <1>8 DEF UserFollows, Same
<1>10. \A d \in Dirs, j \in Ids : entries'[d][j] = entries[d][j]
                                  \/ (entries'[d][j] = "none" /\ j \in touched')
  BY <1>2, <1>3, <1>6
<1> HIDE DEF D
<1>11. FilesFollow'
  BY <1>1, <1>3, <1>4, <1>8, <1>9, <1>10, FrontHas, FollowKept
<1>12. ASSUME NEW d \in Dirs \ overlap'
       PROVE  Spares(f, d) /\ (In(f, d) => Truthful(d)') /\ (In(f, d)' => Knows(f, d)')
  <2>1. Truthful(d) /\ (In(f, d) <=> d = D)
    BY <1>1, <1>2, <1>4, InKnows, FrontHas DEF In, Busy, Ended
  <2>2. d # D => entries'[d] = entries[d]
    BY <1>3
  <2>3. DirOf(i) # d => \A j \in Ids : DirOf(j) = d => (j \in touched' <=> j \in touched)
    BY <1>3
  <2>4. Spares(f, d)
    BY <1>1, <2>1, <2>2, <2>3 DEF Spares, D
  <2>5. Truthful(d)'
    BY <1>1, <1>3, <1>6, <2>1 DEF Truthful, Tells, Listed, Unreadable
  <2>6. Knows(f, d)'
    BY <1>4, FrontHas DEF Knows, HasSeen
  <2> QED BY <2>4, <2>5, <2>6
<1> QED BY <1>4, <1>5, <1>7, <1>11, <1>12, FrontHas, MemKept

LEMMA RemoveReadMem ==
    ASSUME MemInv, NEW f \in Fronts, RemoveRead(f)
    PROVE  MemInv'
<1>0. PICK i : i = Head(work[f].ids)
  OBVIOUS
<1> DEFINE D == DirOf(i)
<1>1. /\ work[f].at = "removeRead" /\ Busy(f)
      /\ i \in Ids /\ work[f].ids # <<>> /\ work[f].dir = D /\ D \in Dirs
      /\ i \in Savers => work[i].at \notin Before
      /\ entries[D][i] = "none" /\ i \in touched
  BY <1>0, RemovalHas DEF RemoveRead, Removing, Unlinked
<1>2. UNCHANGED <<meta, entries, saved, touched>>
  BY DEF RemoveRead
<1>3. CASE Unreadable(D)
  <2>1. meta[D] # NoFile
    BY <1>3, MemoryAssumption DEF MemoryAssumption, Unreadable
  <2>2. At(f, "err") /\ FilesSame
    BY <1>1, <1>2, <1>3, <2>1 DEF RemoveRead, FilesSame
  <2> QED BY <1>1, <2>2, EndMem, FrontHas
<1>4. CASE ~Unreadable(D) /\ meta[D] = NoFile
  <2>1. NextId(f) /\ removed' = removed \union {i}
    BY <1>0, <1>1, <1>4 DEF RemoveRead
  <2>2. FilesOK'
    BY <1>1, <1>2, <2>1 DEF MemInv, FilesOK, Lists
  <2>3. /\ Moved(f) /\ OwnWork(f)' /\ UserFollows(f)'
        /\ \A s \in Savers : work'[s] = work[s]
        /\ \A d : Knows(f, d)'
    BY <1>1, <2>1, NextIdMoves
  <2> HIDE DEF D
  <2>4. FilesFollow'
    BY <1>1, <1>2, <2>1, <2>3, FrontHas, FollowKept
  <2>5. ASSUME NEW d \in Dirs \ overlap'
        PROVE  Spares(f, d) /\ (In(f, d) => Truthful(d)')
    <3>1. Truthful(d) /\ (In(f, d) <=> d = D)
      BY <1>1, <2>3, InKnows, FrontHas DEF In
    <3>2. Spares(f, d)
      BY <1>2, <2>1, <3>1 DEF Spares, D
    <3>3. d = D => Truthful(d)'
      BY <1>1, <1>2, <1>4, <2>1, <3>1 DEF Truthful, Tells, Listed
    <3> QED BY <3>1, <3>2, <3>3
  <2> QED BY <2>2, <2>3, <2>4, <2>5, FrontHas, MemKept
<1>5. CASE ~Unreadable(D) /\ meta[D] # NoFile
  <2> DEFINE w == [work[f] EXCEPT !.at = "removeTruncate", !.seen = meta[D]]
  <2>0. IsOperation(work[f])
    BY FrontHas DEF WorkShape
  <2>1. /\ IsOperation(w) /\ w.at = "removeTruncate" /\ w.ids = work[f].ids
        /\ w.places = work[f].places /\ w.dir = D /\ w.seen = meta[D]
    BY <1>1, <2>0 DEF IsOperation, Fields
  <2>2. Goes(f, w) /\ FilesSame
    BY <1>1, <1>2, <1>5 DEF RemoveRead, FilesSame
  <2> HIDE DEF w
  <2>3. Moved(f) /\ work'[f] = w
    BY <2>1, <2>2, GoesOn, FrontHas
  <2>4. Lists(D, meta[D])
    BY <1>1, <1>5, ListingIs DEF Unreadable
  <2>5. OwnWork(f)'
    BY <1>0, <1>1, <2>1, <2>3, <2>4, FrontHas
    DEF OwnWork, UserWork, UseStages, Removing, Unlinked, HasSeen, Lists
  <2>6. \A s \in Savers : work'[s] = work[s]
    BY <2>3, FrontHas DEF Moved, Procs
  <2>7. UserFollows(f)'
    BY <1>0, <1>1, <2>1, <2>2, <2>3, <2>6 DEF UserFollows, FilesSame
  <2> HIDE DEF D
  <2>8. ASSUME NEW d \in Dirs \ overlap', In(f, d)'
        PROVE  Knows(f, d)'
    <3>1. d = D /\ Truthful(d)
      BY <2>1, <2>3, <2>8, InKnows, FrontHas DEF In
    <3>2. Tells(D, meta[D])
      BY <1>5, <3>1 DEF Truthful, Listed
    <3> QED BY <2>1, <2>2, <2>3, <3>1, <3>2, FrontHas DEF Knows, Tells, FilesSame
  <2> QED BY <2>2, <2>3, <2>5, <2>6, <2>7, <2>8, FrontHas, QuietKept
<1> QED BY <1>3, <1>4, <1>5

LEMMA RemoveTruncateMem ==
    ASSUME MemInv, NEW f \in Fronts, RemoveTruncate(f)
    PROVE  MemInv'
<1>0. PICK i : i = Head(work[f].ids)
  OBVIOUS
<1> DEFINE D == DirOf(i)
<1>1. /\ work[f].at = "removeTruncate" /\ Busy(f)
      /\ i \in Ids /\ work[f].ids # <<>> /\ work[f].dir = D /\ D \in Dirs
      /\ i \in Savers => work[i].at \notin Before
      /\ entries[D][i] = "none" /\ i \in touched
      /\ Lists(D, work[f].seen)
  BY <1>0, RemovalHas, FrontHas DEF RemoveTruncate, Removing, Unlinked, HasSeen
<1>2. /\ At(f, "removeWrite") /\ meta' = [meta EXCEPT ![D] = Empty]
      /\ UNCHANGED <<entries, saved, touched, removed>>
  BY <1>1 DEF RemoveTruncate, Truncates
<1>3. Moved(f) /\ work'[f].at = "removeWrite" /\ Same(f)
  BY <1>2, AtMoves, FrontHas
<1>4. OwnWork(f)'
  BY <1>0, <1>1, <1>3, FrontHas
  DEF OwnWork, UserWork, UseStages, Removing, Unlinked, HasSeen, Same, Lists
<1>5. \A s \in Savers : work'[s] = work[s]
  BY <1>3, FrontHas DEF Moved, Procs
<1>6. UserFollows(f)'
  BY <1>0, <1>1, <1>2, <1>3, <1>5 DEF UserFollows, Same
<1> HIDE DEF D
<1>7. FilesFollow'
  BY <1>2, <1>3, <1>5, <1>6, FrontHas, FollowKept
<1>8. ASSUME D \notin overlap'
      PROVE  Truthful(D)' /\ Knows(f, D)'
  <2>1. Truthful(D) /\ Knows(f, D) /\ meta'[D] = Empty
    BY <1>1, <1>2, <1>3, <1>8, InKnows, FrontHas DEF In, MemInv, FilesOK
  <2>2. NoFile # Empty
    BY MemoryAssumption DEF MemoryAssumption
  <2>3. Tells(D, work[f].seen)
    BY <1>1, <2>1 DEF Knows, HasSeen
  <2> QED BY <1>2, <1>3, <2>1, <2>2, <2>3
          DEF Truthful, Knows, Tells, Listed, Unreadable, HasSeen, Same
<1>9. \A d \in Dirs \ overlap' : In(f, d)' => Knows(f, d)'
  BY <1>1, <1>3, <1>8 DEF In, Same
<1> QED BY <1>1, <1>2, <1>3, <1>4, <1>7, <1>8, <1>9, FrontHas, ListingKept DEF MemInv, FilesOK

LEMMA RemoveWriteMem ==
    ASSUME MemInv, NEW f \in Fronts, RemoveWrite(f)
    PROVE  MemInv'
<1>0. PICK i : i = Head(work[f].ids)
  OBVIOUS
<1> DEFINE D == DirOf(i)
           listing == work[f].seen \ {i}
<1>1. /\ work[f].at = "removeWrite" /\ Busy(f)
      /\ i \in Ids /\ work[f].ids # <<>> /\ work[f].dir = D /\ D \in Dirs
      /\ i \in Savers => work[i].at \notin Before
      /\ entries[D][i] = "none" /\ i \in touched
      /\ Lists(D, listing)
  BY <1>0, RemovalHas, FrontHas DEF RemoveWrite, Removing, Unlinked, HasSeen, Lists
<1>2. /\ NextId(f) /\ Writes(D, listing) /\ removed' = removed \union {i}
      /\ UNCHANGED <<entries, saved, touched>>
  BY <1>0, <1>1 DEF RemoveWrite
<1>3. PICK m \in {listing, Torn} : /\ meta' = [meta EXCEPT ![D] = m]
                                   /\ meta[D] = Empty => m = listing
  BY <1>1, <1>2, WritesIs
<1>4. /\ Moved(f) /\ OwnWork(f)' /\ UserFollows(f)'
      /\ \A s \in Savers : work'[s] = work[s]
      /\ \A d : Knows(f, d)'
  BY <1>1, <1>2, NextIdMoves
<1>5. ASSUME D \notin overlap'
      PROVE  Truthful(D)'
  <2>1. Truthful(D) /\ Knows(f, D)
    BY <1>1, <1>4, <1>5, InKnows, FrontHas DEF In
  <2>2. meta'[D] = listing /\ Tells(D, work[f].seen)
    BY <1>1, <1>3, <2>1 DEF Knows, HasSeen, MemInv, FilesOK
  <2> HIDE DEF D
  <2>3. \A j \in Ids : DirOf(j) = D =>
           /\ j \in saved \ touched => j \in listing
           /\ j \in removed' => j \notin listing
    BY <1>1, <1>2, <2>2 DEF Tells
  <2> HIDE DEF listing
  <2>4. Tells(D, meta[D])'
    BY <1>2, <2>2, <2>3 DEF Tells
  <2>5. meta'[D] # NoFile
    BY <1>1, <2>2, MemoryAssumption DEF MemoryAssumption, Lists
  <2> QED BY <1>1, <1>2, <2>1, <2>4, <2>5 DEF Truthful
<1> HIDE DEF D, listing
<1>6. FilesFollow'
  BY <1>1, <1>2, <1>4, FrontHas, FollowKept
<1>7. saved' \subseteq Ids /\ removed' \subseteq Ids
  BY <1>1, <1>2 DEF MemInv, FilesOK
<1>8. \A j \in Ids : DirOf(j) # D => /\ j \in saved' <=> j \in saved
                                     /\ j \in removed' <=> j \in removed
  BY <1>2 DEF D
<1> QED BY <1>1, <1>2, <1>3, <1>4, <1>5, <1>6, <1>7, <1>8, FrontHas, ListingKept

\* A step of a command keeps the invariant.
LEMMA UseMem ==
    ASSUME MemInv, NEW f \in Fronts, UseStep(f)
    PROVE  MemInv'
  BY ListMem, GetMem, FindEntryMem, UnlinkMem, RemoveReadMem, RemoveTruncateMem,
     RemoveWriteMem DEF UseStep

\* At the start every memory is in its directory and nobody writes.
LEMMA MemInitially == Init => MemInv
<1> SUFFICES ASSUME Init
             PROVE  MemInv
  OBVIOUS
<1> USE MemoryAssumption DEF MemoryAssumption
<1>1. WorkShape
  BY InitHolds DEF Inv, Shape
<1>2. \A p \in Procs :
         /\ work[p].at = "none" /\ work[p].ids = <<>>
         /\ work[p].places.project = NoDir /\ work[p].places.global = NoDir
  <2>1. \A p \in Procs : work[p] \in {Idle, Absent}
    BY DEF Init, MemInit
  <2>2. \A w \in {Idle, Absent} :
           /\ w.at = "none" /\ w.ids = <<>>
           /\ w.places.project = NoDir /\ w.places.global = NoDir
    BY DEF Idle, Absent
  <2> QED BY <2>1, <2>2
<1>3. WorkOK
  <2>1. ASSUME NEW p \in Procs
        PROVE  OwnWork(p)
    <3>1. <<>> \in Seq(Ids)
      OBVIOUS
    <3> QED BY <1>2, <3>1 DEF OwnWork, SaverWork, UserWork, HasSeen, Ended, SaveStages,
                              UseStages, Removing, Unlinked
  <2> QED BY <2>1 DEF WorkOK
<1>4. /\ entries = [d \in Dirs |-> [i \in Ids |->
                      IF i \in Old /\ HomeOf[i] = d THEN "whole" ELSE "none"]]
      /\ saved = Old /\ touched = {} /\ removed = {} /\ overlap = {}
  BY DEF Init, MemInit
<1>5. \A d \in Dirs : LET here == {i \in Old : HomeOf[i] = d}
                      IN IF here = {} THEN meta[d] \in {NoFile, {}} ELSE meta[d] = here
  BY DEF Init, MemInit
<1>6. \A i \in Old : i \in Ids /\ DirOf(i) = HomeOf[i]
  BY DEF Ids, DirOf
<1>7. FilesOK
  <2>1. meta = [d \in Dirs |-> meta[d]]
    BY DEF Init, MemInit
  <2>2. ASSUME NEW d \in Dirs
        PROVE  meta[d] \in {NoFile, Empty, Torn} \/ Lists(d, meta[d])
    BY <1>5, <1>6 DEF Lists
  <2>3. \A d \in Dirs, i \in Ids : entries[d][i] # "none" => DirOf(i) = d
    BY <1>4, <1>6
  <2> QED BY <1>4, <1>6, <2>1, <2>2, <2>3 DEF FilesOK
<1>8. FilesFollow
  <2>1. ASSUME NEW s \in Savers
        PROVE  SaverFollows(s)
    BY <1>2, <1>4 DEF SaverFollows, Procs, Ids
  <2>2. ASSUME NEW f \in Fronts
        PROVE  UserFollows(f)
    BY <1>2 DEF UserFollows, Procs, Removing, Unlinked
  <2> QED BY <2>1, <2>2 DEF FilesFollow
<1>9. Serial
  <2>1. ASSUME NEW d \in Dirs
        PROVE  Truthful(d)
    <3>1. \A i \in Ids : DirOf(i) = d /\ i \in saved => entries[d][i] = "whole"
      BY <1>4, <1>6
    <3>2. \A i \in Ids : DirOf(i) = d /\ i \in saved => i \in meta[d] /\ meta[d] # NoFile
      <4> SUFFICES ASSUME NEW i \in Old, HomeOf[i] = d
                   PROVE  i \in meta[d] /\ meta[d] # NoFile
        BY <1>4, <1>6
      <4>1. meta[d] = {j \in Old : HomeOf[j] = d}
        BY <1>5
      <4>2. meta[d] \in SUBSET Ids
        BY <1>6, <4>1
      <4> QED BY <4>1, <4>2
    <3> QED BY <1>4, <3>1, <3>2 DEF Truthful, Tells
  <2>2. \A p \in Procs, d \in Dirs : ~In(p, d)
    BY <1>2 DEF In, Busy, Ended
  <2> QED BY <2>1, <2>2 DEF Serial
<1> QED BY <1>1, <1>3, <1>7, <1>8, <1>9 DEF MemInv

\* What the memories need of the system: the directories of a command are those of a context,
\* and a command that begins is one of the memories, with its ids.
LEMMA MemSteps ==
    ASSUME Inv, MemInv, cmd \in [Fronts -> Commands], [Next]_vars
    PROVE  MemInv' /\ cmd' = cmd
<1> USE BackendAssumption, MemoryAssumption
<1>1. cmd' = cmd
  BY DEF Next, StartDaemon, KillDaemon, DaemonStep, ClearPath, Bind, BreakLoop, RemoveSocket,
         EndDaemon, Accept, HandlerStep, ApplyContext, Handle, Release, FrontStep,
         ConnectMemory, Dropped, CutOff, Receive, Local, ProbeBackend, ConnectControl,
         EnsureAnswered, VerifyBackend, StopAnswered, Save, frontVars, vars
<1>2. UNCHANGED memVars => MemInv'
  <2> SUFFICES ASSUME UNCHANGED memVars
               PROVE  MemInv'
    OBVIOUS
  <2>1. UNCHANGED <<meta, entries, work, saved, touched, removed, overlap>>
    BY DEF memVars
  <2>2. WorkShape' /\ WorkOK'
    BY <2>1 DEF MemInv, WorkShape, IsOperation, WorkOK, OwnWork, SaverWork, UserWork, Lists
  <2>3. FilesOK'
    BY <2>1 DEF MemInv, FilesOK, Lists
  <2>4. FilesFollow'
    BY <2>1 DEF MemInv, FilesFollow, SaverFollows, UserFollows
  <2>5. Serial'
    BY <2>1 DEF MemInv, Serial, Truthful, Tells, Knows, In, Busy, Listed, Unreadable
  <2> QED BY <2>2, <2>3, <2>4, <2>5 DEF MemInv
<1>3. \A f \in Fronts : f \in Procs /\ Context[f] \in Contexts /\ cmd[f].ids \in Seq(Ids)
  BY DEF BackendAssumption, MemoryAssumption, Procs
<1>4. ASSUME NEW f \in Fronts, Goes(f, Asked(Kind(f), cmd[f].ids)), Kind(f) \in Memory,
             UNCHANGED <<meta, entries, written, saved, touched, removed>>
      PROVE  MemInv'
  BY <1>3, <1>4, AskedMem DEF FilesSame
<1>5. ASSUME NEW f \in Fronts, RunsLocally(f), Kind(f) \in Memory
      PROVE  MemInv'
  BY <1>4, <1>5 DEF RunsLocally
<1>6. ASSUME NEW d \in Daemons, StartDaemon(d) \/ DaemonStep(d)
      PROVE  MemInv'
  BY <1>2, <1>6 DEF StartDaemon, DaemonStep, ClearPath, Bind, BreakLoop, RemoveSocket,
                    EndDaemon, Accept
<1>7. ASSUME NEW d \in Daemons, KillDaemon(d)
      PROVE  MemInv'
  <2>1. lock[d] # NoFront => lock[d] \in Procs
    BY DEF Inv, Shape, Procs
  <2> QED BY <1>2, <1>7, <2>1, KilledMem DEF KillDaemon
<1>8. ASSUME NEW f \in Fronts, NEW d \in Daemons, ApplyContext(d, f)
      PROVE  MemInv'
  <2>1. Kind(f) \in Memory
    BY <1>8 DEF ApplyContext, Inv, OneCarriesOut
  <2>2. CASE Goes(f, Asked(Kind(f), cmd[f].ids))
    BY <1>4, <1>8, <2>1, <2>2 DEF ApplyContext
  <2>3. CASE UNCHANGED <<work, overlap>>
    BY <1>2, <1>8, <2>3 DEF ApplyContext, memVars
  <2> QED BY <1>8, <2>2, <2>3 DEF ApplyContext
<1>9. ASSUME NEW f \in Fronts, NEW d \in Daemons, Handle(d, f)
      PROVE  MemInv'
  <2>1. ctx[d] \in Contexts
    BY DEF Inv, Shape
  <2> QED BY <1>3, <1>9, <2>1, ResolveMem, UseMem DEF Handle
<1>10. ASSUME NEW f \in Fronts, NEW d \in Daemons, Release(d, f)
       PROVE  MemInv'
  BY <1>2, <1>10 DEF Release
<1>11. ASSUME NEW f \in Fronts, FrontStep(f)
       PROVE  MemInv'
  <2>1. CASE ConnectMemory(f)
    BY <1>2, <1>5, <2>1 DEF ConnectMemory
  <2>2. CASE Dropped(f)
    BY <1>2, <1>5, <2>2 DEF Dropped
  <2>3. CASE Local(f)
    BY <1>2, <1>3, <2>3, ResolveMem, UseMem, KilledMem DEF Local
  <2>4. CASE \/ CutOff(f) \/ Receive(f) \/ ProbeBackend(f) \/ ConnectControl(f)
             \/ EnsureAnswered(f) \/ VerifyBackend(f) \/ StopAnswered(f)
    BY <1>2, <2>4 DEF CutOff, Receive, ProbeBackend, ConnectControl, EnsureAnswered,
                      VerifyBackend, StopAnswered
  <2> QED BY <1>11, <2>1, <2>2, <2>3, <2>4 DEF FrontStep
<1>12. ASSUME NEW s \in Savers, Save(s)
       PROVE  MemInv'
  BY <1>12, SaveMem, KilledMem DEF Save, Procs
<1>13. UNCHANGED vars => MemInv'
  BY <1>2 DEF vars
<1>14. MemInv'
  BY <1>6, <1>7, <1>8, <1>9, <1>10, <1>11, <1>12, <1>13 DEF Next, HandlerStep
<1> QED BY <1>1, <1>14

-----------------------------------------------------------------------------
\* The theorems

\* What ProcessContextGuard gives: whatever other clients, stops and kills there are, a
\* command works on the directories of its own client, a client without a cwd on those of
\* the daemon's, and a daemon without a command is in the environment it was started in, and
\* in the directory as long as it could go back to it.
THEOREM ContextIsTheClients == Spec => []WorksInOwnContext
<1>1. Inv => WorksInOwnContext
  BY DEF Inv, AllWorkFor, FreeIsOwn, Own, WorksInOwnContext
<1> QED BY <1>1, InvHolds, PTL

\* The fallback of run_aish_write_with_fallback never carries out what a daemon has begun, and
\* success is reported of commands only that went to their end.
THEOREM CarriedOutOnce == Spec => []RunAtMostOnce
<1>1. Inv => RunAtMostOnce
  BY DEF Inv, OneCarriesOut, SuccessIsTrue, RunAtMostOnce
<1> QED BY <1>1, InvHolds, PTL

\* Without a lock the files of the memories still agree as long as operations in a directory
\* come one after the other: a listing that can be read tells of every saved memory until its
\* removal and of no removed one, whatever failed, was killed or ran in a daemon before.
THEOREM ListingsAgree == Spec => []SerialListing
<1> DEFINE Given == cmd \in [Fronts -> Commands]
<1>1. Init => MemInv /\ Given
  BY MemInitially DEF Init
<1>2. Inv /\ MemInv /\ Given /\ [Next]_vars => MemInv' /\ Given'
  BY MemSteps
<1>3. MemInv => SerialListing
  <2> SUFFICES ASSUME MemInv, NEW d \in Dirs, d \notin overlap, Listed(d)
               PROVE  /\ \A i \in saved \ touched :
                            DirOf(i) = d => entries[d][i] = "whole" /\ i \in meta[d]
                      /\ \A i \in removed : entries[d][i] = "none" /\ i \notin meta[d]
    BY DEF SerialListing
  <2>1. Truthful(d)
    BY DEF MemInv, Serial
  <2>2. Lists(d, meta[d])
    BY ListingIs DEF Listed, Unreadable
  <2>3. ASSUME NEW i \in removed, DirOf(i) # d
        PROVE  entries[d][i] = "none" /\ i \notin meta[d]
    BY <2>2, <2>3 DEF MemInv, FilesOK, Lists
  <2> QED BY <2>1, <2>3 DEF MemInv, FilesOK, Truthful, Tells
<1> QED BY <1>1, <1>2, <1>3, InvHolds, PTL DEF Spec

=============================================================================
