--------------------------- MODULE Schedules_proofs ---------------------------
(***************************************************************************)
(* Proofs about Schedules, for any crons, instants, calls, throws and       *)
(* crashes.  The types hold however operations overlap.  All else is        *)
(* proved of operations that do not (MaxBusy <= 1): then the one operation  *)
(* knows the row and the ticks, which is what is lost when two overlap.     *)
(***************************************************************************)
EXTENDS Schedules, FiniteSetTheorems, WellFoundedInduction, TLAPS

-----------------------------------------------------------------------------
(* The invariants.                                                         *)

(* A tick that waits, or that failed, has come; an active tick is the        *)
(* one that some fire serves, and no other fire does.                       *)
TickInv ==
  /\ \A t \in Horizon :
       /\ ticks[t].state \in {"waiting", "active", "failed"} \/ ticks[t].made > 0 => t <= now
       /\ ticks[t].state = "active" => \E p \in Procs : ops[p].op = "fire" /\ ops[p].tick = t
  /\ \A p \in Procs : ops[p].op = "fire" =>
       /\ ops[p].tick \in Horizon /\ ticks[ops[p].tick].state = "active"
       /\ \A q \in Procs : ops[q].op = "fire" /\ ops[q].tick = ops[p].tick => q = p

(* What an operation carries at each of its awaits.                         *)
Carries(o) ==
  /\ o.op = "idle" => o = Idle
  /\ o.op \in {"create", "update"} => o.pc \in {"write", "list", "remove"}
  /\ o.op \in {"activate", "deactivate", "delete"} => o.pc \in {"list", "remove"}
  /\ o.op = "create" => o.cron \in Crons
  /\ o.op = "fire" => o.cron = "none"
  /\ o.op = "fire" /\ o.pc \in {"read", "trigger"} => ~o.failed
  /\ o.op # "idle" /\ o.pc \in {"trigger", "write"} => o.next \in Horizon
  /\ o.op \in {"create", "update", "activate", "fire"} /\ o.pc \in {"list", "remove"} => o.row \in Row
  /\ o.op \in {"deactivate", "delete"} => o.row = None

TypeInv == TypeOK /\ TickInv /\ \A p \in Procs : Carries(ops[p])

(* Operations do not overlap.                                              *)
Alone == \A p, q \in Busy : p = q

(* What operation o knows of row s and ticks k: what it read or wrote of the *)
(* row is still there, an instant is one of its cron, who removes the       *)
(* delayed ticks has them on its list, and the instant that a create or an  *)
(* update computed is later than every tick that failed.                   *)
Knows(o, s, k) ==
  /\ o.op \in {"update", "fire"} /\ o.pc = "write" => s # None
  /\ o.op # "idle" /\ o.pc = "write" =>
       o.next > 0 /\ o.next \in Times[IF o.cron = "none" THEN s.cron ELSE o.cron]
  /\ o.op = "fire" /\ o.pc \in {"trigger", "write"} =>
       /\ s # None /\ s.active /\ s.next = o.tick
       /\ o.next > o.tick /\ o.next \in Times[s.cron]
  /\ o.op \in {"create", "update", "activate", "fire"} /\ o.pc \in {"list", "remove"} => s # None /\ o.row = s
  /\ o.op = "fire" /\ o.pc \in {"list", "remove"} => s.next > o.tick
  /\ o.op \in {"create", "update"} =>
       /\ o.pc = "write" => \A t \in Horizon : k[t].state = "failed" => t < o.next
       /\ o.pc \in {"list", "remove"} => k[s.next].state # "failed"
  /\ o.op = "deactivate" => s # None /\ ~s.active
  /\ o.op # "idle" /\ o.pc = "remove" => \A t \in Horizon : k[t].state = "delayed" => t \in o.listed

OfCron(s) == s # None => s.next > 0 /\ s.next \in Times[s.cron]
RowInv == OfCron(store) /\ \A p \in Procs : Knows(ops[p], store, ticks)

(* The tick of an active schedule is there, and no other is.  The operation  *)
(* under way leaves that alone until it has written; a fire takes the tick,  *)
(* and writes.                                                             *)
Ready(s, k) == s # None /\ s.active => k[s.next].state \in {"delayed", "waiting"}
Clean(s, k) ==
  \A t \in Horizon : k[t].state = "delayed" /\ k[t].made = 0 => s # None /\ s.active /\ s.next = t
(* Nothing but the throws makes the occurrence that is waited for fail.      *)
Past(s, k) == \A t \in Horizon : k[t].state = "failed" /\ s # None => t < s.next
Keeps(o, s, k) ==
  /\ o.op = "idle" \/ (o.op \in {"create", "update"} /\ o.pc = "write")
     \/ (o.op = "fire" /\ o.pc = "settle") => Ready(s, k) /\ Clean(s, k)
  /\ o.op = "fire" /\ o.pc = "read" => (Ready(s, k) \/ s.next = o.tick) /\ Clean(s, k)
  /\ o.op = "fire" /\ o.pc \in {"trigger", "write"} => Clean(s, k)
  /\ o.op = "fire" /\ o.pc = "settle" /\ o.failed => s = None \/ s.next > o.tick
  /\ Past(s, k)
KeptInv ==
  throws + crashes = 0 =>
    /\ Busy = {} => Ready(store, ticks) /\ Clean(store, ticks) /\ Past(store, ticks)
    /\ \A p \in Busy : Keeps(ops[p], store, ticks)

(* What is triggered has come and is not later than the instant the schedule *)
(* waits for; that one may be triggered, unless the fire that writes the    *)
(* next one has done so, and what is about to be written is later.          *)
Wrote(o) == o.op = "fire" /\ o.pc = "write"
OnceInv ==
  /\ TriggeredOnce
  /\ \A t \in Horizon : triggered[t] > 0 =>
       /\ t <= now /\ (store # None => t <= store.next)
       /\ \A p \in Procs : ops[p].op # "idle" /\ ops[p].pc = "write" => t < ops[p].next
  /\ store # None /\ (\A p \in Procs : ~Wrote(ops[p])) => triggered[store.next] <= throws + crashes

AloneInv == TypeInv /\ Alone /\ RowInv /\ KeptInv /\ OnceInv

-----------------------------------------------------------------------------
(* Facts about the operators.                                              *)

(* A set of naturals has a least element.                                   *)
LEMMA Least ==
  ASSUME NEW T, T \subseteq Nat, T # {}
  PROVE  \E t \in T : \A s \in T : t <= s
<1>1. \E x \in T : \A y \in T : ~ (<<y, x>> \in OpToRel(<, Nat))
  BY NatLessThanWellFounded, WFMin, Zenon
<1>2. PICK x \in T : \A y \in T : ~ (<<y, x>> \in OpToRel(<, Nat))
  BY <1>1
<1>3. \A y \in T : ~ (y < x)
  BY <1>2, Zenon DEF OpToRel
<1>. QED BY <1>3

LEMMA Instants ==
  /\ Horizon \subseteq Nat
  /\ \A c \in Crons : Times[c] \subseteq Horizon /\ Times[c] \subseteq Nat
BY ConstantsAssumption DEF Horizon

LEMMA CronStepFacts ==
  ASSUME NEW c \in Crons, NEW from \in Nat, from <= MaxTime
  PROVE  CronStep(c, from) \in Times[c] /\ CronStep(c, from) > from
<1>. DEFINE T == {t \in Times[c] : t > from}
<1>1. T \subseteq Nat
  BY Instants
<1>2. PICK u \in Times[c] : u > MaxTime
  BY ConstantsAssumption
<1>3. u \in T
  BY <1>2, Instants, ConstantsAssumption
<1>4. PICK t \in T : \A s \in T : t <= s
  BY <1>1, <1>3, Least
<1>5. t \in Times[c] /\ t > from /\ \A s \in Times[c] : s > from => t <= s
  BY <1>4
<1>. QED BY <1>5 DEF CronStep

(* The next run is an instant of the cron, later than the one before.       *)
LEMMA NextRunFacts ==
  ASSUME NEW c \in Crons, NEW from \in Nat, now \in 0 .. MaxTime, from <= now
  PROVE  /\ NextRun(c, from) \in Times[c] /\ NextRun(c, from) \in Horizon
         /\ NextRun(c, from) \in Nat /\ NextRun(c, from) > from
<1>1. MaxTime \in Nat
  BY ConstantsAssumption
<1>2. CronStep(c, from) \in Times[c] /\ CronStep(c, from) > from
  BY <1>1, CronStepFacts
<1>3. CronStep(c, now) \in Times[c] /\ CronStep(c, now) > now
  BY <1>1, CronStepFacts
<1>4. NextRun(c, from) \in Times[c] /\ NextRun(c, from) > from
  BY <1>2, <1>3, Instants DEF NextRun
<1>. QED BY <1>4, Instants

-----------------------------------------------------------------------------
(* The types, whether operations overlap or not.                            *)
LEMMA IdleFacts == Idle \in Op /\ Carries(Idle) /\ NoTick \in Tick /\ Idle.op = "idle" /\ Idle.pc = "read"
BY DEF Idle, Op, Carries, NoTick, Tick, None

(* Edits of what an operation carries.                                      *)
LEMMA ListedOp ==
  ASSUME NEW o \in Op, NEW L \in SUBSET Horizon
  PROVE  LET e == [o EXCEPT !.listed = L] IN e \in Op /\ e.op = o.op /\ e.pc = o.pc /\ e.tick = o.tick
BY DEF Op

LEMMA SettledOp ==
  ASSUME NEW o \in Op, o.op = "fire"
  PROVE  LET e == [o EXCEPT !.pc = "settle", !.failed = TRUE]
         IN  e \in Op /\ e.op = "fire" /\ e.pc = "settle" /\ e.tick = o.tick /\ e.cron = o.cron
BY DEF Op

LEMMA TypeFacts ==
  ASSUME TypeOK
  PROVE  /\ now \in Nat /\ now \in 0 .. MaxTime /\ now <= MaxTime /\ MaxTime \in Nat
         /\ store \in Row \cup {None} /\ ticks \in [Horizon -> Tick]
         /\ ops \in [Procs -> Op] /\ triggered \in [Horizon -> Nat]
         /\ calls \in 0 .. MaxCalls /\ throws \in 0 .. MaxThrows /\ crashes \in 0 .. MaxCrashes
         /\ throws \in Nat /\ crashes \in Nat /\ calls \in Nat
BY ConstantsAssumption DEF TypeOK

LEMMA TypeInit == Init => TypeInv
<1>. SUFFICES ASSUME Init PROVE TypeInv
  OBVIOUS
<1>. USE ConstantsAssumption, IdleFacts DEF Init
<1>1. TypeOK
  BY DEF TypeOK, NoTick, Tick
<1>2. TickInv
  BY DEF TickInv, NoTick
<1>. QED BY <1>1, <1>2 DEF TypeInv

(* A step that puts one process into operation o, and the ticks into k.     *)
LEMMA TypeStep ==
  ASSUME TypeInv, NEW p \in Procs, NEW o \in Op, Carries(o), ops' = [ops EXCEPT ![p] = o],
         now' = now, store' \in Row \cup {None}, ticks' \in [Horizon -> Tick],
         triggered' \in [Horizon -> Nat], calls' \in 0 .. MaxCalls,
         throws' \in 0 .. MaxThrows, crashes' \in 0 .. MaxCrashes,
         \A t \in Horizon : ticks'[t].state \in {"waiting", "active", "failed"} \/ ticks'[t].made > 0 => t <= now,
         \A t \in Horizon : ticks'[t].state = "active" =>
           \/ o.op = "fire" /\ o.tick = t
           \/ ticks[t].state = "active" /\ ~(ops[p].op = "fire" /\ ops[p].tick = t),
         \A t \in Horizon : ticks[t].state = "active" /\ ~(ops[p].op = "fire" /\ ops[p].tick = t)
           => ticks'[t].state = "active" /\ ~(o.op = "fire" /\ o.tick = t),
         o.op = "fire" => o.tick \in Horizon /\ ticks'[o.tick].state = "active"
  PROVE  TypeInv'
<1>0. TypeOK /\ TickInv /\ \A q \in Procs : Carries(ops[q])
  BY DEF TypeInv
<1>. HIDE DEF Carries
<1>1. ops' \in [Procs -> Op] /\ ops'[p] = o /\ \A q \in Procs : q # p => ops'[q] = ops[q]
  BY <1>0, TypeFacts
<1>2. TypeOK'
  BY <1>0, <1>1 DEF TypeOK
<1>3. \A q \in Procs : Carries(ops'[q])
  BY <1>0, <1>1
<1>4. ASSUME NEW t \in Horizon, ticks'[t].state = "active"
      PROVE  \E q \in Procs : ops'[q].op = "fire" /\ ops'[q].tick = t
  <2>1. CASE o.op = "fire" /\ o.tick = t
    BY <1>1, <2>1
  <2>2. CASE ticks[t].state = "active" /\ ~(ops[p].op = "fire" /\ ops[p].tick = t)
    <3>1. PICK q \in Procs : ops[q].op = "fire" /\ ops[q].tick = t
      BY <1>0, <2>2 DEF TickInv
    <3>. QED BY <1>1, <2>2, <3>1
  <2>. QED BY <1>4, <2>1, <2>2
<1>5. ASSUME NEW q \in Procs, ops'[q].op = "fire", q # p
      PROVE  /\ ops'[q].tick \in Horizon /\ ticks'[ops'[q].tick].state = "active"
             /\ ~(o.op = "fire" /\ o.tick = ops'[q].tick)
             /\ \A r \in Procs : r # p /\ ops'[r].op = "fire" /\ ops'[r].tick = ops'[q].tick => r = q
  <2>1. ops'[q] = ops[q] /\ \A r \in Procs : r # p => ops'[r] = ops[r]
    BY <1>1, <1>5
  <2>2. /\ ops[q].tick \in Horizon /\ ticks[ops[q].tick].state = "active"
        /\ \A r \in Procs : ops[r].op = "fire" /\ ops[r].tick = ops[q].tick => r = q
    BY <1>0, <1>5, <2>1 DEF TickInv
  <2>. QED BY <1>5, <2>1, <2>2
<1>6. ASSUME NEW q \in Procs, ops'[q].op = "fire"
      PROVE  /\ ops'[q].tick \in Horizon /\ ticks'[ops'[q].tick].state = "active"
             /\ \A r \in Procs : ops'[r].op = "fire" /\ ops'[r].tick = ops'[q].tick => r = q
  <2>1. CASE q = p
    BY <1>1, <1>5, <1>6, <2>1
  <2>2. CASE q # p
    BY <1>1, <1>5, <1>6, <2>2
  <2>. QED BY <2>1, <2>2
<1>7. TickInv'
  BY <1>4, <1>6 DEF TickInv
<1>. QED BY <1>2, <1>3, <1>7 DEF TypeInv

(* ... where the ticks stay, and a fire stays the fire of its tick.          *)
LEMMA TypeStill ==
  ASSUME TypeInv, NEW p \in Procs, NEW o \in Op, Carries(o), ops' = [ops EXCEPT ![p] = o],
         now' = now, store' \in Row \cup {None}, ticks' = ticks,
         triggered' \in [Horizon -> Nat], calls' \in 0 .. MaxCalls,
         throws' \in 0 .. MaxThrows, crashes' \in 0 .. MaxCrashes,
         o.op = "fire" <=> ops[p].op = "fire", o.op = "fire" => o.tick = ops[p].tick
  PROVE  TypeInv'
<1>. HIDE DEF Carries
<1>1. TypeOK /\ TickInv
  BY DEF TypeInv
<1>2. \A t \in Horizon : ticks'[t].state \in {"waiting", "active", "failed"} \/ ticks'[t].made > 0 => t <= now
  BY <1>1 DEF TickInv
<1>3. o.op = "fire" => o.tick \in Horizon /\ ticks'[o.tick].state = "active"
  BY <1>1 DEF TickInv
<1>4. ticks' \in [Horizon -> Tick]
  BY <1>1, TypeFacts
<1>. QED BY <1>2, <1>3, <1>4, TypeStep

(* What a call that begins carries.                                        *)
Creating(c) == [Idle EXCEPT !.op = "create", !.pc = "write", !.cron = c, !.next = NextRun(c, now)]
Updating(c) ==
  [Idle EXCEPT !.op = "update", !.pc = "write", !.cron = c,
               !.next = NextRun(IF c = "none" THEN store.cron ELSE c, now)]
Activating(s) == [Idle EXCEPT !.op = "activate", !.pc = "list", !.row = s]
Clearing(op) == [Idle EXCEPT !.op = op, !.pc = "list"]
Firing(t) == [Idle EXCEPT !.op = "fire", !.tick = t]

LEMMA Begins ==
  ASSUME TypeOK
  PROVE  /\ \A c \in Crons : Creating(c) \in Op /\ Carries(Creating(c)) /\ Creating(c).next > now /\ Creating(c).next \in Times[c]
         /\ store # None => \A c \in Crons \cup {"none"} :
              /\ Updating(c) \in Op /\ Carries(Updating(c)) /\ Updating(c).next > now
              /\ Updating(c).next \in Times[IF c = "none" THEN store.cron ELSE c]
         /\ \A s \in Row : Activating(s) \in Op /\ Carries(Activating(s))
         /\ \A op \in {"deactivate", "delete"} : Clearing(op) \in Op /\ Carries(Clearing(op))
         /\ \A t \in Horizon : Firing(t) \in Op /\ Carries(Firing(t))
<1>1. \A c \in Crons : NextRun(c, now) \in Horizon /\ NextRun(c, now) > now /\ NextRun(c, now) \in Times[c]
  BY TypeFacts, NextRunFacts
<1>2. ASSUME NEW c \in Crons
      PROVE  Creating(c) \in Op /\ Carries(Creating(c)) /\ Creating(c).next > now /\ Creating(c).next \in Times[c]
  <2>. DEFINE n == NextRun(c, now)
  <2>1. n \in Horizon /\ n > now /\ n \in Times[c]
    BY <1>1
  <2>. HIDE DEF n
  <2>. QED BY <2>1 DEF Creating, Idle, Op, Carries, None, n
<1>3. ASSUME store # None, NEW c \in Crons \cup {"none"}
      PROVE  /\ Updating(c) \in Op /\ Carries(Updating(c)) /\ Updating(c).next > now
             /\ Updating(c).next \in Times[IF c = "none" THEN store.cron ELSE c]
  <2>. DEFINE n == NextRun(IF c = "none" THEN store.cron ELSE c, now)
  <2>1. (IF c = "none" THEN store.cron ELSE c) \in Crons
    BY <1>3, TypeFacts DEF Row
  <2>2. n \in Horizon /\ n > now /\ n \in Times[IF c = "none" THEN store.cron ELSE c]
    BY <1>1, <2>1
  <2>. HIDE DEF n
  <2>. QED BY <2>2 DEF Updating, Idle, Op, Carries, None, n
<1>4. \A s \in Row : Activating(s) \in Op /\ Carries(Activating(s))
  BY DEF Activating, Idle, Op, Carries, None
<1>5. \A op \in {"deactivate", "delete"} : Clearing(op) \in Op /\ Carries(Clearing(op))
  <2>. SUFFICES ASSUME NEW op \in {"deactivate", "delete"} PROVE Clearing(op) \in Op /\ Carries(Clearing(op))
    OBVIOUS
  <2>1. [Idle EXCEPT !.op = op] \in Op
    BY IdleFacts DEF Op
  <2>2. Clearing(op) \in Op
    BY <2>1 DEF Clearing, Op
  <2>3. Carries(Clearing(op))
    BY DEF Clearing, Idle, Carries, None
  <2>. QED BY <2>2, <2>3
<1>6. \A t \in Horizon : Firing(t) \in Op /\ Carries(Firing(t))
  BY DEF Firing, Idle, Op, Carries, None
<1>. QED BY <1>2, <1>3, <1>4, <1>5, <1>6

LEMMA ToggledRow ==
  ASSUME NEW s \in Row, NEW b \in BOOLEAN
  PROVE  [s EXCEPT !.active = b] \in Row
BY DEF Row

LEMMA TypeBegin ==
  ASSUME TypeInv, NEW p \in Procs, NEW o \in Op, Carries(o), Begin(p, o), store' \in Row \cup {None},
         o.op # "fire"
  PROVE  TypeInv'
<1>. HIDE DEF Carries
<1>1. /\ ops' = [ops EXCEPT ![p] = o] /\ ops[p].op = "idle" /\ calls' \in 0 .. MaxCalls
      /\ now' = now /\ ticks' = ticks /\ triggered' = triggered /\ throws' = throws /\ crashes' = crashes
  <2>1. ops[p].op = "idle"
    BY DEF Begin, Starts, Busy
  <2>2. calls' \in 0 .. MaxCalls
    BY TypeFacts, ConstantsAssumption DEF Begin, TypeInv
  <2>. QED BY <2>1, <2>2 DEF Begin
<1>. QED BY <1>1, TypeFacts, TypeStill DEF TypeInv

(* What the store's statement writes, and what its operation then carries.   *)
LEMMA WriteFacts ==
  ASSUME TypeInv, NEW p \in Procs, Write(p)
  PROVE  /\ ops[p].op \in {"create", "update", "fire"} /\ ops[p].pc = "write"
         /\ UNCHANGED <<now, ticks, triggered, counts>>
         /\ \/ /\ store = None /\ store' = store
               /\ \/ ops[p].op = "update" /\ ops' = [ops EXCEPT ![p] = Idle]
                  \/ /\ ops[p].op = "fire" /\ ops' = [ops EXCEPT ![p] = [ops[p] EXCEPT !.pc = "settle"]]
            \/ /\ store # None \/ ops[p].op = "create"
               /\ store' \in Row /\ store'.next = ops[p].next
               /\ store # None => store'.cron = IF ops[p].cron = "none" THEN store.cron ELSE ops[p].cron
               /\ store # None /\ ops[p].op # "create" => store'.active = store.active
               /\ store = None => store'.cron = ops[p].cron
               /\ ops' = [ops EXCEPT ![p] = [ops[p] EXCEPT !.pc = "list", !.row = store']]
<1>. DEFINE o == ops[p]
<1>1. o \in Op /\ Carries(o) /\ store \in Row \cup {None}
  BY TypeFacts DEF TypeInv
<1>2. o.op \in {"create", "update", "fire"} /\ o.pc = "write" /\ UNCHANGED <<now, ticks, triggered, counts>>
  BY <1>1 DEF Write, Carries, Op
<1>3. CASE store = None /\ o.op # "create"
  BY <1>2, <1>3 DEF Write
<1>4. CASE ~(store = None /\ o.op # "create")
  <2>1. store' = Written(o) /\ ops' = [ops EXCEPT ![p] = [o EXCEPT !.pc = "list", !.row = store']]
    BY <1>4 DEF Write
  <2>2. o.next \in Horizon /\ (o.op = "create" => o.cron \in Crons) /\ o.cron \in Crons \cup {"none"}
    BY <1>1, <1>2 DEF Carries, Op
  <2>3. /\ Written(o) \in Row /\ Written(o).next = o.next
        /\ store # None => Written(o).cron = IF o.cron = "none" THEN store.cron ELSE o.cron
        /\ store # None /\ o.op # "create" => Written(o).active = store.active
        /\ store = None => Written(o).cron = o.cron
    <3>1. CASE store = None
      BY <1>4, <2>2, <3>1 DEF Written, Row
    <3>2. CASE store # None
      <4>1. store \in Row /\ Revives \in BOOLEAN
        BY <1>1, <3>2, ConstantsAssumption
      <4>. QED BY <2>2, <3>2, <4>1 DEF Written, Row
    <3>. QED BY <3>1, <3>2
  <2>. QED BY <1>2, <1>4, <2>1, <2>3
<1>. QED BY <1>3, <1>4

LEMMA TypeWrite ==
  ASSUME TypeInv, NEW p \in Procs, Write(p)
  PROVE  TypeInv'
<1>. DEFINE o == ops[p]
             on == [o EXCEPT !.pc = "list", !.row = store']
             off == [o EXCEPT !.pc = "settle"]
<1>1. o \in Op /\ Carries(o) /\ store \in Row \cup {None} /\ o.op \in {"create", "update", "fire"} /\ o.pc = "write"
  BY WriteFacts, TypeFacts DEF TypeInv
<1>2. /\ now' = now /\ ticks' = ticks /\ triggered' = triggered /\ calls' = calls /\ throws' = throws
      /\ crashes' = crashes
  BY WriteFacts DEF counts
<1>3. store' \in Row => on \in Op /\ Carries(on) /\ on.op = o.op /\ on.tick = o.tick
  BY <1>1 DEF Op, Carries
<1>4. o.op = "fire" => off \in Op /\ Carries(off) /\ off.op = o.op /\ off.tick = o.tick
  BY <1>1 DEF Op, Carries
<1>5. CASE store' = store /\ o.op = "update" /\ ops' = [ops EXCEPT ![p] = Idle]
  BY <1>2, <1>5, IdleFacts, TypeFacts, TypeStill DEF TypeInv
<1>6. CASE store' = store /\ o.op = "fire" /\ ops' = [ops EXCEPT ![p] = off]
  <2>. HIDE DEF off, Carries
  <2>. QED BY <1>2, <1>4, <1>6, TypeFacts, TypeStill DEF TypeInv
<1>7. CASE store' \in Row /\ ops' = [ops EXCEPT ![p] = on]
  <2>. HIDE DEF on, Carries
  <2>. QED BY <1>2, <1>3, <1>7, TypeFacts, TypeStill DEF TypeInv
<1>. QED BY <1>5, <1>6, <1>7, WriteFacts

(* What the other steps do.                                                *)
LEMMA FinishFacts ==
  ASSUME TypeInv, NEW p \in Procs, Finish(p)
  PROVE  /\ ops[p].op # "idle" /\ ops[p].pc = "remove" /\ ops[p].listed = {}
         /\ UNCHANGED <<now, triggered, counts>>
         /\ store' = IF ops[p].op = "delete" THEN None ELSE store
         /\ ops' = [ops EXCEPT ![p] = IF ops[p].op = "fire" THEN [ops[p] EXCEPT !.pc = "settle"] ELSE Idle]
         /\ ops[p].row # None => ops[p].row \in Row
         /\ \A t \in Horizon : ticks'[t] =
              IF /\ ops[p].row # None /\ ops[p].row.active /\ ops[p].row.next = t /\ ticks[t].state = "none"
                THEN [ticks[t] EXCEPT !.state = IF t > now THEN "delayed" ELSE "waiting"]
                ELSE ticks[t]
         /\ ticks' \in [Horizon -> Tick]
<1>. DEFINE row == ops[p].row
<1>1. /\ ops[p].op # "idle" /\ ops[p].pc = "remove" /\ ops[p].listed = {}
      /\ UNCHANGED <<now, triggered, counts>>
      /\ store' = IF ops[p].op = "delete" THEN None ELSE store
      /\ ops' = [ops EXCEPT ![p] = IF ops[p].op = "fire" THEN [ops[p] EXCEPT !.pc = "settle"] ELSE Idle]
  BY DEF Finish
<1>2. ticks' = IF row = None THEN ticks ELSE Enqueued(row)
  BY DEF Finish
<1>3. ticks \in [Horizon -> Tick] /\ row \in Row \cup {None}
  BY TypeFacts DEF TypeInv, Op
<1>. HIDE DEF row
<1>4. CASE row # None /\ row.active /\ ticks[row.next].state = "none"
  <2>. DEFINE k == IF row.next > now THEN "delayed" ELSE "waiting"
  <2>1. ticks' = [ticks EXCEPT ![row.next].state = k] /\ row.next \in Horizon
    BY <1>2, <1>3, <1>4 DEF Enqueued, Row
  <2>2. k \in {"delayed", "waiting"}
    OBVIOUS
  <2>3. \A t \in Horizon : ticks'[t] = IF t = row.next THEN [ticks[t] EXCEPT !.state = k] ELSE ticks[t]
    <3>. HIDE DEF k
    <3>. QED BY <1>3, <2>1
  <2>4. ticks' \in [Horizon -> Tick]
    <3>. HIDE DEF k
    <3>. QED BY <1>3, <2>1, <2>2 DEF Tick
  <2>5. \A t \in Horizon : row # None /\ row.active /\ row.next = t /\ ticks[t].state = "none" <=> t = row.next
    BY <1>4
  <2>. QED BY <1>1, <1>3, <2>3, <2>4, <2>5 DEF row
<1>5. CASE ~(row # None /\ row.active /\ ticks[row.next].state = "none")
  <2>1. ticks' = ticks
    BY <1>2, <1>5 DEF Enqueued
  <2>. QED BY <1>1, <1>3, <1>5, <2>1 DEF row
<1>. QED BY <1>4, <1>5

LEMMA OverFacts == Over \in Tick /\ Over.state \in {"none", "failed"} /\ Over.made = 0
BY DEF Over, NoTick, Tick

LEMMA SettleFacts ==
  ASSUME TypeInv, NEW p \in Procs, Settle(p)
  PROVE  /\ ops[p].op = "fire" /\ ops[p].pc = "settle" /\ ops[p].tick \in Horizon
         /\ ticks[ops[p].tick].state = "active"
         /\ ops' = [ops EXCEPT ![p] = Idle] /\ UNCHANGED <<now, store, triggered, counts>>
         /\ ticks' \in [Horizon -> Tick]
         /\ \A t \in Horizon : t # ops[p].tick => ticks'[t] = ticks[t]
         /\ ticks'[ops[p].tick].state \in {"none", "delayed", "failed"}
         /\ ticks'[ops[p].tick].state = "failed" => ops[p].failed
         /\ ticks'[ops[p].tick].state = "delayed" => ticks'[ops[p].tick].made > 0
<1>. DEFINE t == ops[p].tick
            k == Settled(ticks[t], ops[p].failed)
<1>1. /\ ops[p].op = "fire" /\ ops[p].pc = "settle" /\ ticks' = [ticks EXCEPT ![t] = k]
      /\ ops' = [ops EXCEPT ![p] = Idle] /\ UNCHANGED <<now, store, triggered, counts>>
  BY DEF Settle
<1>2. t \in Horizon /\ ticks[t].state = "active" /\ ticks \in [Horizon -> Tick]
  BY <1>1, TypeFacts DEF TypeInv, TickInv
<1>3. k \in Tick /\ k.state \in {"none", "delayed", "failed"} /\ (k.state = "delayed" => k.made > 0)
      /\ (k.state = "failed" => ops[p].failed)
  <2>1. NoTick \in Tick /\ NoTick.state = "none"
    BY DEF NoTick, Tick
  <2>2. CASE ~ops[p].failed
    BY <2>1, <2>2 DEF Settled
  <2>3. CASE ops[p].failed /\ ~(ticks[t].made + 1 < Attempts)
    BY <2>3, OverFacts DEF Settled
  <2>4. CASE ops[p].failed /\ ticks[t].made + 1 < Attempts
    <3>. DEFINE m == ticks[t].made
    <3>1. k = [ticks[t] EXCEPT !.state = "delayed", !.made = m + 1] /\ ticks[t] \in Tick /\ m \in Nat
      BY <1>2, <2>4 DEF Settled, Tick
    <3>2. PICK n \in Nat : n = m + 1
      BY <3>1
    <3>3. k = [ticks[t] EXCEPT !.state = "delayed", !.made = n] /\ n > 0
      BY <3>1, <3>2
    <3>. HIDE DEF m, k
    <3>e. ASSUME NEW q \in Tick, NEW e, e = [q EXCEPT !.state = "delayed", !.made = n]
          PROVE  e \in Tick /\ e.state = "delayed" /\ e.made = n
      BY ONLY <3>e, n \in Nat DEF Tick
    <3>4. k \in Tick /\ k.state = "delayed" /\ k.made = n
      BY ONLY <3>1, <3>3, <3>e
    <3>. QED BY <2>4, <3>3, <3>4
  <2>. QED BY <2>2, <2>3, <2>4
<1>. HIDE DEF k, t
<1>4. ticks' \in [Horizon -> Tick] /\ ticks'[t] = k /\ \A u \in Horizon : u # t => ticks'[u] = ticks[u]
  BY <1>1, <1>2, <1>3
<1>. QED BY <1>1, <1>2, <1>3, <1>4 DEF t

LEMMA RemoveFacts ==
  ASSUME TypeInv, NEW p \in Procs, NEW t \in Horizon, Remove(p, t)
  PROVE  /\ ops[p].op # "idle" /\ ops[p].pc = "remove"
         /\ ops' = [ops EXCEPT ![p] = [ops[p] EXCEPT !.listed = ops[p].listed \ {t}]]
         /\ UNCHANGED <<now, store, triggered, counts>>
         /\ ticks' \in [Horizon -> Tick]
         /\ \A u \in Horizon : ticks'[u] = IF u = t /\ ticks[u].state # "active" THEN NoTick ELSE ticks[u]
<1>1. /\ ops[p].pc = "remove" /\ ops' = [ops EXCEPT ![p].listed = ops[p].listed \ {t}]
      /\ UNCHANGED <<now, store, triggered, counts>>
      /\ ticks' = [ticks EXCEPT ![t] = IF ticks[t].state = "active" THEN ticks[t] ELSE NoTick]
  BY DEF Remove
<1>2. ops \in [Procs -> Op] /\ ticks \in [Horizon -> Tick] /\ Carries(ops[p])
  BY TypeFacts DEF TypeInv
<1>3. ops[p].op # "idle"
  BY <1>1, <1>2 DEF Carries, Idle
<1>4. ops' = [ops EXCEPT ![p] = [ops[p] EXCEPT !.listed = ops[p].listed \ {t}]]
  BY <1>1, <1>2
<1>. QED BY <1>1, <1>2, <1>3, <1>4, IdleFacts

LEMMA ThrowFacts ==
  ASSUME TypeInv, NEW p \in Procs, Throw(p)
  PROVE  /\ ops[p].op # "idle" /\ throws' = throws + 1 /\ throws' \in 0 .. MaxThrows
         /\ UNCHANGED <<now, store, ticks, triggered, calls, crashes>>
         /\ ops' = [ops EXCEPT ![p] = IF ops[p].op = "fire"
                                        THEN [ops[p] EXCEPT !.pc = "settle", !.failed = TRUE] ELSE Idle]
<1>1. throws' = throws + 1 /\ throws < MaxThrows
  BY DEF Throw
<1>2. throws' \in 0 .. MaxThrows
  BY <1>1, TypeFacts, ConstantsAssumption DEF TypeInv
<1>. QED BY <1>1, <1>2 DEF Throw, Busy

LEMMA CrashFacts ==
  ASSUME TypeInv, NEW p \in Procs, Crash(p)
  PROVE  /\ ops[p].op = "fire" /\ crashes' = crashes + 1 /\ crashes' \in 0 .. MaxCrashes
         /\ UNCHANGED <<now, store, triggered, calls, throws>> /\ ops' = [ops EXCEPT ![p] = Idle]
         /\ ops[p].tick \in Horizon /\ ticks[ops[p].tick].state = "active" /\ ticks' \in [Horizon -> Tick]
         /\ \A t \in Horizon : t # ops[p].tick => ticks'[t] = ticks[t]
         /\ ticks'[ops[p].tick].state # "active"
<1>1. crashes' = crashes + 1 /\ crashes < MaxCrashes
  BY DEF Crash
<1>2. crashes' \in 0 .. MaxCrashes
  BY <1>1, TypeFacts, ConstantsAssumption DEF TypeInv
<1>3. /\ ops[p].op = "fire" /\ ticks' = [ticks EXCEPT ![ops[p].tick] = Stalled(ticks[ops[p].tick])]
      /\ UNCHANGED <<now, store, triggered, calls, throws>> /\ ops' = [ops EXCEPT ![p] = Idle]
  BY DEF Crash
<1>4. ops[p].tick \in Horizon /\ ticks[ops[p].tick].state = "active" /\ ticks \in [Horizon -> Tick]
  BY <1>3, TypeFacts DEF TypeInv, TickInv
<1>5. ASSUME NEW k \in Tick PROVE Stalled(k) \in Tick /\ Stalled(k).state # "active"
  <2>1. CASE k.stalls < MaxStalled
    <3>1. Stalled(k) = [k EXCEPT !.state = "waiting", !.stalls = k.stalls + 1]
      BY <2>1 DEF Stalled
    <3>2. PICK n \in Nat : n = k.stalls + 1
      BY DEF Tick
    <3>. DEFINE e == Stalled(k)
    <3>3. e = [k EXCEPT !.state = "waiting", !.stalls = n]
      BY <3>1, <3>2
    <3>. HIDE DEF e
    <3>4. e \in Tick /\ e.state = "waiting"
      BY ONLY k \in Tick, n \in Nat, <3>3 DEF Tick
    <3>. QED BY <3>4 DEF e
  <2>2. CASE ~(k.stalls < MaxStalled)
    BY <2>2, OverFacts DEF Stalled
  <2>. QED BY <2>1, <2>2
<1>6. Stalled(ticks[ops[p].tick]) \in Tick /\ Stalled(ticks[ops[p].tick]).state # "active"
  BY <1>4, <1>5
<1>. DEFINE k == Stalled(ticks[ops[p].tick])
            d == ops[p].tick
<1>. HIDE DEF k, d
<1>7. ticks' = [ticks EXCEPT ![d] = k] /\ d \in Horizon /\ k \in Tick /\ k.state # "active"
  BY <1>3, <1>4, <1>6 DEF k, d
<1>8. ticks' \in [Horizon -> Tick] /\ ticks'[d].state # "active" /\ \A t \in Horizon : t # d => ticks'[t] = ticks[t]
  BY <1>4, <1>7
<1>. QED BY <1>1, <1>2, <1>3, <1>4, <1>8 DEF d

LEMMA ClaimFacts ==
  ASSUME TypeInv, NEW p \in Procs, NEW t \in Horizon, Claim(p, t)
  PROVE  /\ Starts(p) /\ ops[p].op = "idle" /\ ticks[t].state = "waiting"
         /\ ops' = [ops EXCEPT ![p] = Firing(t)] /\ UNCHANGED <<now, store, triggered, counts>>
         /\ ticks' \in [Horizon -> Tick]
         /\ \A u \in Horizon : ticks'[u] = IF u = t THEN [ticks[u] EXCEPT !.state = "active"] ELSE ticks[u]
<1>1. ticks \in [Horizon -> Tick]
  BY TypeFacts DEF TypeInv
<1>2. ticks' = [ticks EXCEPT ![t].state = "active"]
  BY DEF Claim
<1>3. ticks' \in [Horizon -> Tick]
  BY <1>1, <1>2 DEF Tick
<1>4. \A u \in Horizon : ticks'[u] = IF u = t THEN [ticks[u] EXCEPT !.state = "active"] ELSE ticks[u]
  BY <1>1, <1>2
<1>. QED BY <1>3, <1>4 DEF Claim, Starts, Busy, Firing

LEMMA DueFacts ==
  ASSUME TypeInv, NEW t \in Horizon, Due(t)
  PROVE  /\ ticks[t].state = "delayed" /\ (t <= now \/ ticks[t].made > 0)
         /\ UNCHANGED <<now, store, ops, triggered, counts>> /\ ticks' \in [Horizon -> Tick]
         /\ \A u \in Horizon : ticks'[u] = IF u = t THEN [ticks[u] EXCEPT !.state = "waiting"] ELSE ticks[u]
<1>1. ticks \in [Horizon -> Tick]
  BY TypeFacts DEF TypeInv
<1>2. ticks' = [ticks EXCEPT ![t].state = "waiting"]
  BY DEF Due
<1>3. ticks' \in [Horizon -> Tick]
  BY <1>1, <1>2 DEF Tick
<1>4. \A u \in Horizon : ticks'[u] = IF u = t THEN [ticks[u] EXCEPT !.state = "waiting"] ELSE ticks[u]
  BY <1>1, <1>2
<1>. QED BY <1>3, <1>4 DEF Due

LEMMA ForgetFacts ==
  ASSUME TypeInv, NEW t \in Horizon, Forget(t)
  PROVE  /\ ticks[t].state = "failed" /\ UNCHANGED <<now, store, ops, triggered, counts>>
         /\ ticks' \in [Horizon -> Tick]
         /\ \A u \in Horizon : ticks'[u] = IF u = t THEN NoTick ELSE ticks[u]
<1>1. ticks \in [Horizon -> Tick]
  BY TypeFacts DEF TypeInv
<1>. QED BY <1>1, IdleFacts DEF Forget

LEMMA ReadFacts ==
  ASSUME TypeInv, NEW p \in Procs, Read(p)
  PROVE  /\ ops[p].op = "fire" /\ ops[p].pc = "read" /\ UNCHANGED <<now, store, ticks, triggered, counts>>
         /\ ops[p].tick \in Horizon /\ ops[p].tick <= now
         /\ \/ /\ Fires(ops[p].tick)
               /\ NextRun(store.cron, ops[p].tick) \in Times[store.cron] \cap Horizon
               /\ NextRun(store.cron, ops[p].tick) > ops[p].tick
               /\ ops' = [ops EXCEPT ![p] = [ops[p] EXCEPT !.pc = "trigger",
                                                           !.next = NextRun(store.cron, ops[p].tick)]]
            \/ ~Fires(ops[p].tick) /\ ops' = [ops EXCEPT ![p] = [ops[p] EXCEPT !.pc = "settle"]]
<1>1. ops[p].op = "fire" /\ ops[p].pc = "read" /\ UNCHANGED <<now, store, ticks, triggered, counts>>
  BY DEF Read
<1>2. ops[p].tick \in Horizon /\ ops[p].tick <= now
  BY <1>1, TypeFacts DEF TypeInv, TickInv
<1>3. CASE Fires(ops[p].tick)
  <2>1. store.cron \in Crons
    BY <1>3, TypeFacts DEF TypeInv, Fires, Row
  <2>2. ops[p].tick \in Nat
    BY <1>2, Instants
  <2>3. /\ NextRun(store.cron, ops[p].tick) \in Times[store.cron] \cap Horizon
        /\ NextRun(store.cron, ops[p].tick) > ops[p].tick
    BY <1>2, <2>1, <2>2, TypeFacts, NextRunFacts DEF TypeInv
  <2>. QED BY <1>1, <1>2, <1>3, <2>3 DEF Read
<1>. QED BY <1>1, <1>2, <1>3 DEF Read

LEMMA TriggerFacts ==
  ASSUME TypeInv, NEW p \in Procs, Trigger(p)
  PROVE  /\ ops[p].op = "fire" /\ ops[p].pc = "trigger" /\ UNCHANGED <<now, store, ticks, counts>>
         /\ ops[p].tick \in Horizon /\ ops[p].tick <= now
         /\ \E ok \in BOOLEAN :
              /\ triggered' = [triggered EXCEPT ![ops[p].tick] =
                                 IF ok THEN triggered[ops[p].tick] + 1 ELSE triggered[ops[p].tick]]
              /\ ops' = [ops EXCEPT ![p] = [ops[p] EXCEPT !.pc = "write", !.failed = ~ok]]
         /\ triggered' \in [Horizon -> Nat]
<1>1. ops[p].op = "fire" /\ ops[p].pc = "trigger" /\ UNCHANGED <<now, store, ticks, counts>>
  BY DEF Trigger
<1>2. ops[p].tick \in Horizon /\ ops[p].tick <= now /\ triggered \in [Horizon -> Nat]
  BY <1>1, TypeFacts DEF TypeInv, TickInv
<1>3. PICK ok \in BOOLEAN :
        /\ triggered' = [triggered EXCEPT ![ops[p].tick] =
                           IF ok THEN triggered[ops[p].tick] + 1 ELSE triggered[ops[p].tick]]
        /\ ops' = [ops EXCEPT ![p] = [ops[p] EXCEPT !.pc = "write", !.failed = ~ok]]
  BY DEF Trigger
<1>4. triggered' \in [Horizon -> Nat]
  BY <1>2, <1>3
<1>. QED BY <1>1, <1>2, <1>3, <1>4

LEMMA TypeNext == TypeInv /\ [Next]_vars => TypeInv'
<1>. SUFFICES ASSUME TypeInv, [Next]_vars PROVE TypeInv'
  OBVIOUS
<1>0. TypeOK /\ TickInv /\ \A p \in Procs : Carries(ops[p])
  BY DEF TypeInv
<1>1. ASSUME NEW p \in Procs, NEW c \in Crons, Create(p, c) PROVE TypeInv'
  <2>1. Begin(p, Creating(c)) /\ store' = store
    BY <1>1 DEF Create, Creating
  <2>2. Creating(c) \in Op /\ Carries(Creating(c)) /\ Creating(c).op # "fire"
    BY <1>0, Begins DEF Creating, Idle
  <2>. QED BY <1>0, <2>1, <2>2, TypeFacts, TypeBegin
<1>2. ASSUME NEW p \in Procs, NEW c \in Crons \cup {"none"}, Update(p, c) PROVE TypeInv'
  <2>1. Begin(p, Updating(c)) /\ store' = store /\ store # None
    BY <1>2 DEF Update, Updating
  <2>2. Updating(c) \in Op /\ Carries(Updating(c)) /\ Updating(c).op # "fire"
    BY <1>0, <2>1, Begins DEF Updating, Idle
  <2>. QED BY <1>0, <2>1, <2>2, TypeFacts, TypeBegin
<1>3. ASSUME NEW p \in Procs, Activate(p) \/ Deactivate(p) \/ Delete(p) PROVE TypeInv'
  <2>1. CASE Activate(p)
    <3>1. Begin(p, Activating(store')) /\ store' = [store EXCEPT !.active = TRUE] /\ store # None
      BY <2>1 DEF Activate, Activating
    <3>2. store' \in Row
      BY <1>0, <3>1, TypeFacts, ToggledRow
    <3>3. Activating(store') \in Op /\ Carries(Activating(store')) /\ Activating(store').op # "fire"
      BY <1>0, <3>2, Begins DEF Activating, Idle
    <3>. QED BY <3>1, <3>2, <3>3, TypeBegin
  <2>2. CASE Deactivate(p) \/ Delete(p)
    <3>1. PICK op \in {"deactivate", "delete"} : Begin(p, Clearing(op))
      BY <2>2 DEF Deactivate, Delete, Clearing
    <3>2. store' \in Row \cup {None}
      <4>1. (store' = [store EXCEPT !.active = FALSE] /\ store # None) \/ store' = store
        BY <2>2 DEF Deactivate, Delete
      <4>. QED BY <1>0, <4>1, TypeFacts, ToggledRow
    <3>3. Clearing(op) \in Op /\ Carries(Clearing(op)) /\ Clearing(op).op # "fire"
      BY <1>0, Begins DEF Clearing, Idle
    <3>. QED BY <3>1, <3>2, <3>3, TypeBegin
  <2>. QED BY <1>3, <2>1, <2>2
<1>4. ASSUME NEW p \in Procs, Write(p) PROVE TypeInv'
  BY <1>4, TypeWrite
<1>5. ASSUME NEW p \in Procs, List(p) PROVE TypeInv'
  <2>. DEFINE on == [ops[p] EXCEPT !.pc = "remove", !.listed = {t \in Horizon : ticks[t].state = "delayed"}]
  <2>1. /\ ops[p].op # "idle" /\ ops[p].pc = "list" /\ UNCHANGED <<now, store, ticks, triggered, counts>>
        /\ ops' = [ops EXCEPT ![p] = on]
    BY <1>0, <1>5, TypeFacts DEF List
  <2>2. on \in Op /\ on.op = ops[p].op /\ on.tick = ops[p].tick
    <3>. DEFINE L == {t \in Horizon : ticks[t].state = "delayed"}
    <3>1. ops[p] \in Op /\ L \in SUBSET Horizon
      BY <1>0, TypeFacts
    <3>2. LET e == [[ops[p] EXCEPT !.pc = "remove"] EXCEPT !.listed = L]
          IN  e \in Op /\ e.op = ops[p].op /\ e.tick = ops[p].tick
      <4>1. /\ [ops[p] EXCEPT !.pc = "remove"] \in Op
            /\ [ops[p] EXCEPT !.pc = "remove"].op = ops[p].op /\ [ops[p] EXCEPT !.pc = "remove"].tick = ops[p].tick
        BY <3>1 DEF Op
      <4>. HIDE DEF L
      <4>. QED BY <3>1, <4>1, ListedOp
    <3>. QED BY <3>2
  <2>3. Carries(on)
    BY <1>0, <2>1 DEF Carries
  <2>. HIDE DEF on, Carries
  <2>. QED BY <1>0, <2>1, <2>2, <2>3, TypeFacts, TypeStill DEF counts
<1>6. ASSUME NEW p \in Procs, NEW t \in Horizon, Remove(p, t) PROVE TypeInv'
  <2>. DEFINE on == [ops[p] EXCEPT !.listed = ops[p].listed \ {t}]
  <2>1. /\ ops[p].op # "idle" /\ ops[p].pc = "remove" /\ UNCHANGED <<now, store, triggered, counts>>
        /\ ops' = [ops EXCEPT ![p] = on] /\ ticks' \in [Horizon -> Tick]
        /\ \A u \in Horizon : ticks'[u] = IF u = t /\ ticks[u].state # "active" THEN NoTick ELSE ticks[u]
    BY <1>6, RemoveFacts
  <2>2. on \in Op /\ on.op = ops[p].op /\ on.tick = ops[p].tick
    <3>1. ops[p] \in Op /\ ops[p].listed \ {t} \in SUBSET Horizon
      BY <1>0, TypeFacts DEF Op
    <3>. QED BY <3>1, ListedOp
  <2>3. Carries(on)
    BY <1>0, <2>1 DEF Carries
  <2>4. \A u \in Horizon : ticks'[u].state = "active" <=> ticks[u].state = "active"
    BY <2>1 DEF NoTick
  <2>5. \A u \in Horizon : ticks'[u].state \in {"waiting", "active", "failed"} \/ ticks'[u].made > 0 => u <= now
    BY <1>0, <2>1 DEF NoTick, TickInv
  <2>6. on.op = "fire" => on.tick \in Horizon /\ ticks'[on.tick].state = "active"
    BY <1>0, <2>2, <2>4 DEF TickInv
  <2>7. \A u \in Horizon : ticks'[u].state = "active" =>
          \/ on.op = "fire" /\ on.tick = u
          \/ ticks[u].state = "active" /\ ~(ops[p].op = "fire" /\ ops[p].tick = u)
    BY <2>2, <2>4
  <2>8. \A u \in Horizon : ticks[u].state = "active" /\ ~(ops[p].op = "fire" /\ ops[p].tick = u) =>
          ticks'[u].state = "active" /\ ~(on.op = "fire" /\ on.tick = u)
    BY <2>2, <2>4
  <2>9. /\ now' = now /\ store' \in Row \cup {None} /\ triggered' \in [Horizon -> Nat]
        /\ calls' \in 0 .. MaxCalls /\ throws' \in 0 .. MaxThrows /\ crashes' \in 0 .. MaxCrashes
        /\ ops' = [ops EXCEPT ![p] = on] /\ ticks' \in [Horizon -> Tick]
    BY <1>0, <2>1, TypeFacts DEF counts
  <2>10. on \in Op
    BY <2>2
  <2>. HIDE DEF on, Carries
  <2>. QED BY <2>3, <2>5, <2>6, <2>7, <2>8, <2>9, <2>10, TypeStep
<1>7. ASSUME NEW p \in Procs, Finish(p) PROVE TypeInv'
  <2>. DEFINE on == IF ops[p].op = "fire" THEN [ops[p] EXCEPT !.pc = "settle"] ELSE Idle
  <2>1. /\ ops' = [ops EXCEPT ![p] = on] /\ UNCHANGED <<now, triggered, counts>> /\ ticks' \in [Horizon -> Tick]
        /\ store' \in Row \cup {None}
    BY <1>0, <1>7, FinishFacts, TypeFacts
  <2>2. on \in Op /\ Carries(on) /\ (on.op = "fire" <=> ops[p].op = "fire") /\ (on.op = "fire" => on.tick = ops[p].tick)
    <3>1. CASE ops[p].op = "fire"
      BY <1>0, <3>1, TypeFacts DEF Op, Carries
    <3>2. CASE ops[p].op # "fire"
      BY <3>2, IdleFacts
    <3>. QED BY <3>1, <3>2
  <2>3. \A u \in Horizon : /\ ticks'[u].made = ticks[u].made
                           /\ \/ ticks'[u] = ticks[u]
                              \/ ticks[u].state = "none" /\ ticks'[u].state = "delayed"
                              \/ ticks[u].state = "none" /\ ticks'[u].state = "waiting" /\ u <= now
    <3>1. \A u \in Horizon : u \in Nat /\ now \in Nat /\ ticks[u] \in Tick
      BY <1>0, TypeFacts, Instants
    <3>2. ASSUME NEW u \in Horizon PROVE
            \/ ticks'[u] = ticks[u]
            \/ /\ ticks[u].state = "none"
               /\ ticks'[u] = [ticks[u] EXCEPT !.state = IF u > now THEN "delayed" ELSE "waiting"]
      BY <1>7, FinishFacts
    <3>3. ASSUME NEW u \in Horizon, NEW k, ticks'[u] = [ticks[u] EXCEPT !.state = k]
          PROVE  ticks'[u].made = ticks[u].made /\ ticks'[u].state = k
      BY <3>1, <3>3 DEF Tick
    <3>. TAKE u \in Horizon
    <3>4. CASE ticks'[u] = ticks[u]
      BY <3>4
    <3>5. CASE ticks[u].state = "none" /\ ticks'[u] = [ticks[u] EXCEPT !.state = IF u > now THEN "delayed" ELSE "waiting"]
      <4>1. CASE u > now
        BY <3>3, <3>5, <4>1
      <4>2. CASE ~(u > now)
        BY <3>1, <3>3, <3>5, <4>2
      <4>. QED BY <4>1, <4>2
    <3>. QED BY <3>2, <3>4, <3>5
  <2>4. \A u \in Horizon : ticks'[u].state = "active" <=> ticks[u].state = "active"
    BY <2>3
  <2>5. \A u \in Horizon : ticks'[u].state \in {"waiting", "active", "failed"} \/ ticks'[u].made > 0 => u <= now
    BY <1>0, <2>3 DEF TickInv
  <2>6. on.op = "fire" => on.tick \in Horizon /\ ticks'[on.tick].state = "active"
    BY <1>0, <2>2, <2>4 DEF TickInv
  <2>. HIDE DEF on, Carries
  <2>. QED BY <1>0, <2>1, <2>2, <2>4, <2>5, <2>6, TypeFacts, TypeStep DEF counts
<1>8. ASSUME NEW p \in Procs, Read(p) PROVE TypeInv'
  <2>. DEFINE n == NextRun(store.cron, ops[p].tick)
              on == [ops[p] EXCEPT !.pc = "trigger", !.next = n]
              off == [ops[p] EXCEPT !.pc = "settle"]
  <2>1. /\ ops[p].op = "fire" /\ ops[p].pc = "read" /\ UNCHANGED <<now, store, ticks, triggered, counts>>
        /\ (ops' = [ops EXCEPT ![p] = on] /\ n \in Horizon) \/ ops' = [ops EXCEPT ![p] = off]
    BY <1>8, ReadFacts
  <2>. HIDE DEF n
  <2>2. ASSUME n \in Horizon PROVE on \in Op /\ Carries(on) /\ on.op = "fire" /\ on.tick = ops[p].tick
    <3>. HIDE DEF off
    <3>1. ops[p] \in Op /\ ops[p].cron = "none" /\ ops[p].op = "fire" /\ ~ops[p].failed
      BY <1>0, <2>1, TypeFacts DEF Carries
    <3>2. /\ on \in Op /\ on.op = "fire" /\ on.pc = "trigger" /\ ~on.failed /\ on.cron = "none" /\ on.tick = ops[p].tick
          /\ on.next \in Horizon
      BY <2>2, <3>1 DEF Op
    <3>. QED BY <3>2 DEF Carries
  <2>3. off \in Op /\ Carries(off) /\ off.op = "fire" /\ off.tick = ops[p].tick
    <3>. HIDE DEF on
    <3>1. ops[p] \in Op /\ ops[p].cron = "none" /\ ops[p].op = "fire"
      BY <1>0, <2>1, TypeFacts DEF Carries
    <3>2. off \in Op /\ off.op = "fire" /\ off.pc = "settle" /\ off.cron = "none" /\ off.tick = ops[p].tick
      BY <3>1 DEF Op
    <3>. QED BY <3>2 DEF Carries
  <2>. HIDE DEF on, off, Carries
  <2>4. CASE ops' = [ops EXCEPT ![p] = on] /\ n \in Horizon
    BY <1>0, <2>1, <2>2, <2>4, TypeFacts, TypeStill DEF counts
  <2>5. CASE ops' = [ops EXCEPT ![p] = off]
    BY <1>0, <2>1, <2>3, <2>5, TypeFacts, TypeStill DEF counts
  <2>. QED BY <2>1, <2>4, <2>5
<1>9. ASSUME NEW p \in Procs, Trigger(p) PROVE TypeInv'
  <2>1. PICK ok \in BOOLEAN : ops' = [ops EXCEPT ![p] = [ops[p] EXCEPT !.pc = "write", !.failed = ~ok]]
    BY <1>9, TriggerFacts
  <2>. DEFINE on == [ops[p] EXCEPT !.pc = "write", !.failed = ~ok]
  <2>2. /\ ops[p].op = "fire" /\ ops[p].pc = "trigger" /\ UNCHANGED <<now, store, ticks, counts>>
        /\ triggered' \in [Horizon -> Nat]
    BY <1>9, TriggerFacts
  <2>3. on \in Op /\ Carries(on) /\ on.op = "fire" /\ on.tick = ops[p].tick
    <3>1. ops[p] \in Op /\ ops[p].cron = "none" /\ ops[p].next \in Horizon
      BY <1>0, <2>2, TypeFacts DEF Carries
    <3>2. /\ on \in Op /\ on.op = "fire" /\ on.pc = "write" /\ on.cron = "none" /\ on.tick = ops[p].tick
          /\ on.next \in Horizon
      BY <2>2, <3>1 DEF Op
    <3>. QED BY <3>2 DEF Carries
  <2>. HIDE DEF on, Carries
  <2>. QED BY <1>0, <2>1, <2>2, <2>3, TypeFacts, TypeStill DEF counts, on
<1>10. ASSUME NEW p \in Procs, Settle(p) PROVE TypeInv'
  <2>1. \A u \in Horizon : ticks'[u].state = "active" <=> ticks[u].state = "active" /\ u # ops[p].tick
    BY <1>10, SettleFacts
  <2>2. \A u \in Horizon : ticks'[u].state \in {"waiting", "active", "failed"} \/ ticks'[u].made > 0 => u <= now
    BY <1>0, <1>10, SettleFacts DEF TickInv
  <2>. HIDE DEF Carries
  <2>. QED BY <1>0, <1>10, <2>1, <2>2, SettleFacts, IdleFacts, TypeFacts, TypeStep DEF counts
<1>11. ASSUME NEW p \in Procs, NEW t \in Horizon, Claim(p, t) PROVE TypeInv'
  <2>1. /\ ops[p].op = "idle" /\ ops' = [ops EXCEPT ![p] = Firing(t)] /\ UNCHANGED <<now, store, triggered, counts>>
        /\ ticks' \in [Horizon -> Tick] /\ ticks[t].state = "waiting"
        /\ \A u \in Horizon : ticks'[u] = IF u = t THEN [ticks[u] EXCEPT !.state = "active"] ELSE ticks[u]
    BY <1>11, ClaimFacts
  <2>2. Firing(t) \in Op /\ Carries(Firing(t)) /\ Firing(t).op = "fire" /\ Firing(t).tick = t
    <3>1. Firing(t).op = "fire" /\ Firing(t).tick = t
      BY DEF Firing, Idle
    <3>. QED BY <1>0, <3>1, Begins
  <2>3. \A u \in Horizon : ticks'[u].made = ticks[u].made /\ ticks'[u].state = IF u = t THEN "active" ELSE ticks[u].state
    <3>1. \A u \in Horizon : ticks[u] \in Tick
      BY <1>0, TypeFacts
    <3>. QED BY <2>1, <3>1 DEF Tick
  <2>4. \A u \in Horizon : ticks'[u].state \in {"waiting", "active", "failed"} \/ ticks'[u].made > 0 => u <= now
    BY <1>0, <2>1, <2>3 DEF TickInv
  <2>. DEFINE on == Firing(t)
  <2>5. ticks'[t].state = "active" /\ on \in Op /\ Carries(on) /\ on.op = "fire" /\ on.tick = t
    BY <2>2, <2>3
  <2>6. \A u \in Horizon : ticks'[u].state = "active" => on.tick = u \/ ticks[u].state = "active"
    BY <2>3, <2>5
  <2>7. \A u \in Horizon : ticks[u].state = "active" => ticks'[u].state = "active" /\ on.tick # u
    BY <2>1, <2>3, <2>5
  <2>8. ops' = [ops EXCEPT ![p] = on] /\ ops[p].op # "fire"
    BY <2>1
  <2>. HIDE DEF on, Carries
  <2>. QED BY <1>0, <2>1, <2>4, <2>5, <2>6, <2>7, <2>8, TypeFacts, TypeStep DEF counts
<1>12. ASSUME NEW p \in Procs, Throw(p) PROVE TypeInv'
  <2>. DEFINE on == IF ops[p].op = "fire" THEN [ops[p] EXCEPT !.pc = "settle", !.failed = TRUE] ELSE Idle
  <2>1. on \in Op /\ Carries(on) /\ (on.op = "fire" <=> ops[p].op = "fire") /\ (on.op = "fire" => on.tick = ops[p].tick)
    <3>1. CASE ops[p].op = "fire"
      <4>1. on = [ops[p] EXCEPT !.pc = "settle", !.failed = TRUE] /\ ops[p] \in Op /\ ops[p].cron = "none"
        BY <1>0, <3>1, TypeFacts DEF Carries
      <4>2. on \in Op /\ on.op = "fire" /\ on.pc = "settle" /\ on.tick = ops[p].tick /\ on.cron = "none"
        BY <3>1, <4>1, SettledOp
      <4>. HIDE DEF on
      <4>. QED BY <3>1, <4>2 DEF Carries
    <3>2. CASE ops[p].op # "fire"
      BY <3>2, IdleFacts
    <3>. QED BY <3>1, <3>2
  <2>2. /\ ops' = [ops EXCEPT ![p] = on] /\ now' = now /\ ticks' = ticks
        /\ store' \in Row \cup {None} /\ triggered' \in [Horizon -> Nat]
        /\ calls' \in 0 .. MaxCalls /\ throws' \in 0 .. MaxThrows /\ crashes' \in 0 .. MaxCrashes
    BY <1>0, <1>12, ThrowFacts, TypeFacts
  <2>. HIDE DEF on, Carries
  <2>. QED BY <2>1, <2>2, TypeStill
<1>13. ASSUME NEW p \in Procs, Crash(p) PROVE TypeInv'
  <2>1. \A u \in Horizon : ticks'[u].state = "active" <=> ticks[u].state = "active" /\ u # ops[p].tick
    BY <1>13, CrashFacts
  <2>2. \A u \in Horizon : ticks'[u].state \in {"waiting", "active", "failed"} \/ ticks'[u].made > 0 => u <= now
    BY <1>0, <1>13, CrashFacts DEF TickInv
  <2>. HIDE DEF Carries
  <2>. QED BY <1>0, <1>13, <2>1, <2>2, CrashFacts, IdleFacts, TypeFacts, TypeStep
<1>14. ASSUME NEW t \in Horizon, Due(t) PROVE TypeInv'
  <2>1. /\ UNCHANGED <<now, store, ops, triggered, counts>> /\ ticks' \in [Horizon -> Tick]
        /\ ticks[t].state = "delayed" /\ (t <= now \/ ticks[t].made > 0)
        /\ \A u \in Horizon : ticks'[u] = IF u = t THEN [ticks[u] EXCEPT !.state = "waiting"] ELSE ticks[u]
    BY <1>14, DueFacts
  <2>2. \A u \in Horizon : /\ ticks'[u].made = ticks[u].made
                           /\ ticks'[u].state = IF u = t THEN "waiting" ELSE ticks[u].state
    <3>1. \A u \in Horizon : ticks[u] \in Tick
      BY <1>0, TypeFacts
    <3>. QED BY <2>1, <3>1 DEF Tick
  <2>3. TypeOK'
    BY <1>0, <2>1 DEF TypeOK, counts
  <2>4. \A u \in Horizon : ticks'[u].state \in {"waiting", "active", "failed"} \/ ticks'[u].made > 0 => u <= now
    BY <1>0, <2>1, <2>2 DEF TickInv
  <2>5. TickInv'
    BY <1>0, <2>1, <2>2, <2>4 DEF TickInv
  <2>. QED BY <1>0, <2>1, <2>3, <2>5 DEF TypeInv
<1>15. CASE Elapse
  <2>1. now' = now + 1 /\ now' \in 0 .. MaxTime /\ UNCHANGED <<store, ticks, ops, triggered, counts>>
    BY <1>0, <1>15, TypeFacts DEF Elapse
  <2>2. TypeOK'
    BY <1>0, <2>1 DEF TypeOK, counts
  <2>3. \A u \in Horizon : ticks[u].state \in {"waiting", "active", "failed"} \/ ticks[u].made > 0 => u <= now + 1
    <3>1. \A u \in Horizon : u \in Nat /\ now \in Nat
      BY <1>0, TypeFacts, Instants
    <3>. QED BY <1>0, <3>1 DEF TickInv
  <2>4. TickInv'
    BY <1>0, <2>1, <2>3 DEF TickInv
  <2>. QED BY <1>0, <2>1, <2>2, <2>4 DEF TypeInv
<1>16. CASE UNCHANGED vars
  BY <1>0, <1>16 DEF vars, counts, TypeInv, TypeOK, TickInv
<1>17. ASSUME NEW t \in Horizon, Forget(t) PROVE TypeInv'
  <2>1. /\ UNCHANGED <<now, store, ops, triggered, counts>> /\ ticks' \in [Horizon -> Tick]
        /\ \A u \in Horizon : ticks'[u] = IF u = t THEN NoTick ELSE ticks[u]
        /\ ticks[t].state = "failed"
    BY <1>17, ForgetFacts
  <2>2. TypeOK'
    BY <1>0, <2>1 DEF TypeOK, counts
  <2>3. \A u \in Horizon : ticks'[u].state = "active" <=> ticks[u].state = "active"
    BY <2>1 DEF NoTick
  <2>4. \A u \in Horizon : ticks'[u].state \in {"waiting", "active", "failed"} \/ ticks'[u].made > 0 => u <= now
    BY <1>0, <2>1 DEF TickInv, NoTick
  <2>5. TickInv'
    BY <1>0, <2>1, <2>3, <2>4 DEF TickInv
  <2>. QED BY <1>0, <2>1, <2>2, <2>5 DEF TypeInv
<1>. QED BY <1>1, <1>2, <1>3, <1>4, <1>5, <1>6, <1>7, <1>8, <1>9, <1>10, <1>11, <1>12, <1>13, <1>14, <1>15, <1>16, <1>17
         DEF Next, Step

(* The row, the ticks and what each call and fire carries are of their      *)
(* types, however operations overlap, throw and crash.                      *)
THEOREM TypeCorrect == Spec => []TypeOK
<1>1. TypeInv => TypeOK
  BY DEF TypeInv
<1>. QED BY <1>1, TypeInit, TypeNext, PTL DEF Spec

-----------------------------------------------------------------------------
(* Operations that do not overlap.                                          *)
Sole(p) == \A q \in Procs : q # p => ops[q] = Idle

(* Of an operation under way, and of one that begins: it is alone, and what  *)
(* the invariant says is about it.                                         *)
LEMMA Under ==
  ASSUME AloneInv, NEW p \in Procs, ops[p].op # "idle"
  PROVE  /\ Sole(p) /\ OfCron(store) /\ Knows(ops[p], store, ticks)
         /\ throws + crashes = 0 => Keeps(ops[p], store, ticks)
         /\ \A t \in Horizon : triggered[t] > 0 /\ ops[p].pc = "write" => t < ops[p].next
         /\ store # None /\ ~Wrote(ops[p]) => triggered[store.next] <= throws + crashes
<1>. HIDE DEF Carries
<1>1. Sole(p) /\ p \in Busy
  BY DEF AloneInv, Alone, Busy, Sole, TypeInv, Carries
<1>2. \A q \in Procs : q # p => ~Wrote(ops[q])
  BY <1>1, IdleFacts DEF Sole, Wrote
<1>3. store # None /\ ~Wrote(ops[p]) => triggered[store.next] <= throws + crashes
  BY <1>2 DEF AloneInv, OnceInv
<1>. QED BY <1>1, <1>3 DEF AloneInv, RowInv, KeptInv, OnceInv

LEMMA Beginning ==
  ASSUME AloneInv, MaxBusy <= 1, NEW p \in Procs, Starts(p)
  PROVE  /\ Sole(p) /\ OfCron(store) /\ ops[p] = Idle
         /\ throws + crashes = 0 => Ready(store, ticks) /\ Clean(store, ticks) /\ Past(store, ticks)
         /\ store # None => triggered[store.next] <= throws + crashes
<1>1. Busy = {}
  <2>. SUFFICES ASSUME NEW q \in Busy PROVE FALSE
    OBVIOUS
  <2>1. Busy = {q}
    BY DEF AloneInv, Alone
  <2>2. Cardinality(Busy) = 1
    BY <2>1, FS_Singleton
  <2>3. MaxBusy \in Nat
    BY ConstantsAssumption
  <2>. QED BY <2>2, <2>3 DEF Starts
<1>2. \A q \in Procs : ops[q] = Idle
  BY <1>1 DEF Busy, AloneInv, TypeInv, Carries
<1>3. \A q \in Procs : ~Wrote(ops[q])
  BY <1>2, IdleFacts DEF Wrote
<1>4. store # None => triggered[store.next] <= throws + crashes
  BY <1>3 DEF AloneInv, OnceInv
<1>. QED BY <1>1, <1>2, <1>4 DEF AloneInv, RowInv, KeptInv, Sole

LEMMA KnowsIdle == \A s, k : Knows(Idle, s, k)
BY IdleFacts DEF Knows

LEMMA NextIsNat ==
  ASSUME NEW o \in Op
  PROVE  o.next \in Nat
<1>1. o.next \in Horizon \/ o.next = 0
  BY DEF Op
<1>2. Horizon \subseteq Nat /\ 0 \in Nat
  BY Instants
<1>. QED BY <1>1, <1>2, Zenon

(* A step of a sole operation that goes on as o.                             *)
LEMMA AloneStep ==
  ASSUME TypeInv, TypeInv', NEW p \in Procs, NEW o \in Op, Sole(p), ops' = [ops EXCEPT ![p] = o],
         OfCron(store'), Knows(o, store', ticks'),
         throws' + crashes' = 0 => Keeps(o, store', ticks'),
         \A t \in Horizon : triggered'[t] <= 1 + throws' + crashes',
         \A t \in Horizon : triggered'[t] > 0 =>
           /\ t <= now' /\ (store' # None => t <= store'.next)
           /\ o.op # "idle" /\ o.pc = "write" => t < o.next,
         store' # None /\ ~Wrote(o) => triggered'[store'.next] <= throws' + crashes'
  PROVE  AloneInv'
<1>1. ops'[p] = o /\ \A q \in Procs : q # p => ops'[q] = Idle
  BY TypeFacts DEF TypeInv, Sole
<1>. HIDE DEF Knows, Keeps, OfCron
<1>2. Alone'
  BY <1>1, IdleFacts DEF Alone, Busy
<1>3. \A q \in Procs : Knows(ops'[q], store', ticks')
  BY <1>1, KnowsIdle
<1>4. RowInv'
  BY <1>3 DEF RowInv
<1>5. \A q \in Procs : ops'[q].op # "idle" => q = p
  BY <1>1, IdleFacts
<1>6. KeptInv'
  <2>. SUFFICES ASSUME throws' + crashes' = 0
                PROVE  /\ Busy' = {} => Ready(store', ticks') /\ Clean(store', ticks') /\ Past(store', ticks')
                       /\ \A q \in Procs : ops'[q].op # "idle" => Keeps(ops'[q], store', ticks')
    BY DEF KeptInv, Busy
  <2>1. \A q \in Procs : ops'[q].op # "idle" => Keeps(ops'[q], store', ticks')
    BY <1>1, <1>5
  <2>2. ASSUME Busy' = {} PROVE Ready(store', ticks') /\ Clean(store', ticks') /\ Past(store', ticks')
    <3>1. o.op = "idle"
      BY <1>1, <2>2 DEF Busy
    <3>. QED BY <3>1 DEF Keeps
  <2>. QED BY <2>1, <2>2
<1>7. OnceInv'
  <2>1. TriggeredOnce'
    BY DEF TriggeredOnce
  <2>2. ASSUME NEW t \in Horizon, triggered'[t] > 0, NEW q \in Procs, ops'[q].op # "idle", ops'[q].pc = "write"
        PROVE  t < ops'[q].next
    BY <1>1, <1>5, <2>2
  <2>3. (\A q \in Procs : ~Wrote(ops'[q])) => ~Wrote(o)
    BY <1>1
  <2>. HIDE DEF Wrote
  <2>. QED BY <2>1, <2>2, <2>3 DEF OnceInv
<1>. QED BY <1>2, <1>4, <1>6, <1>7 DEF AloneInv

(* ... that leaves the history alone.                                       *)
LEMMA AloneQuiet ==
  ASSUME AloneInv, TypeInv', NEW p \in Procs, NEW o \in Op, Sole(p), ops' = [ops EXCEPT ![p] = o],
         now' = now, triggered' = triggered, throws' = throws, crashes' = crashes,
         OfCron(store'), Knows(o, store', ticks'),
         throws + crashes = 0 => Keeps(o, store', ticks'),
         o.op # "idle" /\ o.pc = "write" => \A t \in Horizon : triggered[t] > 0 => t < o.next,
         store' # None => /\ \A t \in Horizon : triggered[t] > 0 => t <= store'.next
                          /\ ~Wrote(o) => triggered[store'.next] <= throws + crashes
  PROVE  AloneInv'
<1>. HIDE DEF Knows, Keeps, OfCron, Wrote
<1>1. TypeInv /\ TriggeredOnce /\ \A t \in Horizon : triggered[t] > 0 => t <= now
  BY DEF AloneInv, OnceInv
<1>. QED BY <1>1, AloneStep DEF TriggeredOnce

-----------------------------------------------------------------------------
(* One step each.                                                          *)
LEMMA AloneBegin ==
  ASSUME AloneInv, TypeInv', MaxBusy <= 1, NEW p \in Procs, NEW o \in Op, Begin(p, o), store' = store,
         o.op \in {"create", "update"}, o.pc = "write", o.op = "update" => store # None,
         o.next > now, o.next \in Times[IF o.cron = "none" THEN store.cron ELSE o.cron]
  PROVE  AloneInv'
<1>1. /\ Starts(p) /\ ops' = [ops EXCEPT ![p] = o] /\ UNCHANGED <<now, ticks, triggered, throws, crashes>>
  BY DEF Begin
<1>2. /\ Sole(p) /\ OfCron(store)
      /\ throws + crashes = 0 => Ready(store, ticks) /\ Clean(store, ticks) /\ Past(store, ticks)
      /\ store # None => triggered[store.next] <= throws + crashes
  BY <1>1, Beginning
<1>3. o.next \in Nat /\ now \in Nat /\ o.next > 0
  <2>1. now \in Nat
    BY TypeFacts DEF AloneInv, TypeInv
  <2>2. o.next \in Nat
    BY NextIsNat
  <2>. QED BY <2>1, <2>2
<1>4. Knows(o, store, ticks)
  <2>1. \A t \in Horizon : ticks[t].state = "failed" => t < o.next
    BY <1>3, Instants DEF AloneInv, TypeInv, TickInv
  <2>. QED BY <1>3, <2>1 DEF Knows
<1>5. throws + crashes = 0 => Keeps(o, store, ticks)
  BY <1>2 DEF Keeps
<1>6. \A t \in Horizon : triggered[t] > 0 => t < o.next /\ (store # None => t <= store.next)
  BY <1>3, Instants DEF AloneInv, OnceInv
<1>. HIDE DEF Knows, Keeps, OfCron, Wrote
<1>. QED BY <1>1, <1>2, <1>4, <1>5, <1>6, AloneQuiet

LEMMA AloneToggle ==
  ASSUME AloneInv, TypeInv', MaxBusy <= 1, NEW p \in Procs, Activate(p) \/ Deactivate(p) \/ Delete(p)
  PROVE  AloneInv'
<1>0. TypeOK /\ store \in Row \cup {None}
  BY TypeFacts DEF AloneInv, TypeInv
<1>1. PICK o \in Op :
        /\ Begin(p, o) /\ o.pc = "list"
        /\ \/ /\ o.op = "activate" /\ store # None /\ store' = [store EXCEPT !.active = TRUE] /\ o.row = store'
           \/ o.op = "deactivate" /\ store # None /\ store' = [store EXCEPT !.active = FALSE]
           \/ o.op = "delete" /\ store' = store
  <2>1. CASE Activate(p)
    <3>1. store' = [store EXCEPT !.active = TRUE] /\ store # None /\ Begin(p, Activating(store'))
      BY <2>1 DEF Activate, Activating
    <3>2. store' \in Row
      BY <1>0, <3>1, ToggledRow
    <3>3. Activating(store') \in Op
      BY <1>0, <3>2, Begins
    <3>4. /\ Activating(store').pc = "list" /\ Activating(store').op = "activate"
          /\ Activating(store').row = store'
      BY DEF Activating, Idle
    <3>. QED BY <3>1, <3>3, <3>4
  <2>2. CASE Deactivate(p) \/ Delete(p)
    <3>1. PICK op \in {"deactivate", "delete"} :
            /\ Begin(p, Clearing(op))
            /\ \/ op = "deactivate" /\ store # None /\ store' = [store EXCEPT !.active = FALSE]
               \/ op = "delete" /\ store' = store
      BY <2>2 DEF Deactivate, Delete, Clearing
    <3>2. Clearing(op) \in Op /\ Clearing(op).pc = "list" /\ Clearing(op).op = op
      BY <1>0, Begins DEF Clearing, Idle
    <3>. QED BY <3>1, <3>2
  <2>. QED BY <2>1, <2>2
<1>2. /\ Starts(p) /\ ops' = [ops EXCEPT ![p] = o] /\ UNCHANGED <<now, ticks, triggered, throws, crashes>>
  BY <1>1 DEF Begin
<1>3. /\ Sole(p) /\ OfCron(store) /\ (store # None => triggered[store.next] <= throws + crashes)
      /\ throws + crashes = 0 => Past(store, ticks)
  BY <1>2, Beginning
<1>4. store # None => store' # None /\ store'.next = store.next /\ store'.cron = store.cron
                      /\ (o.op = "deactivate" => ~store'.active)
  <2>1. ASSUME store # None PROVE store \in Row /\ store.next > 0 /\ None.next = 0
    BY <1>0, <1>3, <2>1 DEF OfCron, None
  <2>. QED BY <1>1, <2>1 DEF Row
<1>5. store' # None => store # None
  BY <1>1
<1>6. OfCron(store')
  BY <1>3, <1>4, <1>5 DEF OfCron
<1>7. Knows(o, store', ticks')
  BY <1>1, <1>4 DEF Knows
<1>8. throws + crashes = 0 => Keeps(o, store', ticks')
  BY <1>1, <1>2, <1>3, <1>4, <1>5 DEF Keeps, Past
<1>9. \A t \in Horizon : triggered[t] > 0 => (store # None => t <= store.next)
  BY DEF AloneInv, OnceInv
<1>. HIDE DEF Knows, Keeps, OfCron, Wrote
<1>. QED BY <1>1, <1>2, <1>3, <1>4, <1>5, <1>6, <1>7, <1>8, <1>9, AloneQuiet

LEMMA AloneClaim ==
  ASSUME AloneInv, TypeInv', MaxBusy <= 1, NEW p \in Procs, NEW t \in Horizon, Claim(p, t)
  PROVE  AloneInv'
<1>. DEFINE o == Firing(t)
<1>1. /\ Starts(p) /\ ops' = [ops EXCEPT ![p] = o] /\ UNCHANGED <<now, store, triggered, counts>>
      /\ \A u \in Horizon : u # t => ticks'[u] = ticks[u]
      /\ ticks'[t].state = "active"
  <2>1. \A u \in Horizon : ticks'[u] = IF u = t THEN [ticks[u] EXCEPT !.state = "active"] ELSE ticks[u]
    BY ClaimFacts DEF AloneInv
  <2>2. ticks[t] \in Tick
    BY TypeFacts DEF AloneInv, TypeInv
  <2>3. ticks'[t].state = "active"
    BY <2>1, <2>2 DEF Tick
  <2>. QED BY <2>1, <2>3, ClaimFacts DEF AloneInv
<1>2. o \in Op /\ o.op = "fire" /\ o.pc = "read" /\ o.tick = t
  BY Begins DEF AloneInv, TypeInv, Firing, Idle
<1>. HIDE DEF o
<1>3. /\ Sole(p) /\ OfCron(store) /\ (store # None => triggered[store.next] <= throws + crashes)
      /\ throws + crashes = 0 => Ready(store, ticks) /\ Clean(store, ticks) /\ Past(store, ticks)
  BY <1>1, Beginning
<1>4. Knows(o, store, ticks')
  BY <1>2 DEF Knows
<1>5. store # None => store.next \in Horizon
  BY TypeFacts DEF AloneInv, TypeInv, Row
<1>6. throws + crashes = 0 => Keeps(o, store, ticks')
  <2>1. Ready(store, ticks) => Ready(store, ticks') \/ store.next = t
    BY <1>1, <1>5 DEF Ready
  <2>2. Clean(store, ticks) => Clean(store, ticks')
    BY <1>1 DEF Clean
  <2>3. Past(store, ticks) => Past(store, ticks')
    BY <1>1 DEF Past
  <2>. QED BY <1>2, <1>3, <2>1, <2>2, <2>3 DEF Keeps
<1>7. \A u \in Horizon : triggered[u] > 0 => (store # None => u <= store.next)
  BY DEF AloneInv, OnceInv
<1>. HIDE DEF Knows, Keeps, OfCron, Wrote
<1>. QED BY <1>1, <1>2, <1>3, <1>4, <1>6, <1>7, AloneQuiet DEF counts

LEMMA AloneWrite ==
  ASSUME AloneInv, TypeInv', NEW p \in Procs, Write(p)
  PROVE  AloneInv' /\ ops'[p] # Idle
<1>. DEFINE o == ops[p]
<1>1. /\ o.op \in {"create", "update", "fire"} /\ o.pc = "write" /\ UNCHANGED <<now, ticks, triggered, counts>>
      /\ o \in Op /\ Carries(o) /\ ops \in [Procs -> Op]
  BY WriteFacts, TypeFacts DEF AloneInv, TypeInv
<1>2. /\ Sole(p) /\ Knows(o, store, ticks)
      /\ \A t \in Horizon : triggered[t] > 0 => t < o.next
      /\ throws + crashes = 0 => Keeps(o, store, ticks)
  BY <1>1, Under
<1>. DEFINE on == [o EXCEPT !.pc = "list", !.row = store']
<1>3. o.op # "create" => store # None
  BY <1>1, <1>2 DEF Knows
<1>4. /\ store' \in Row /\ store'.next = o.next /\ ops' = [ops EXCEPT ![p] = on]
      /\ store'.cron = IF o.cron = "none" THEN store.cron ELSE o.cron
  <2>1. store = None => o.cron # "none"
    BY <1>1, <1>3, ConstantsAssumption DEF Carries
  <2>. QED BY <1>3, <2>1, WriteFacts DEF AloneInv
<1>5. store'.next > 0 /\ store' # None /\ OfCron(store')
  <2>1. o.next > 0 /\ o.next \in Times[IF o.cron = "none" THEN store.cron ELSE o.cron]
    BY <1>1, <1>2 DEF Knows
  <2>. QED BY <1>4, <2>1 DEF OfCron, None
<1>6. /\ on \in Op /\ on.op = o.op /\ on.pc = "list" /\ on.row = store' /\ on.tick = o.tick
  BY <1>1, <1>4 DEF Op
<1>7. o.op = "fire" => store'.next > o.tick
  <2>1. o.op = "fire" => o.next > o.tick /\ o.next \in Nat
    BY <1>1, <1>2, <1>4, Instants DEF Knows, Row
  <2>. QED BY <1>4, <2>1
<1>. HIDE DEF o, on
<1>8a. /\ o.op \in {"create", "update"} => \A t \in Horizon : ticks[t].state = "failed" => t < store'.next
       /\ throws + crashes = 0 => Past(store', ticks')
  <2>1. CASE o.op \in {"create", "update"}
    BY <1>1, <1>2, <1>4, <2>1 DEF Knows, Past
  <2>2. CASE o.op = "fire"
    <3>1. throws + crashes = 0 => \A t \in Horizon : ticks[t].state = "failed" => t < o.tick
      BY <1>1, <1>2, <2>2 DEF Keeps, Past, Knows
    <3>2. \A t \in Horizon : t \in Nat
      BY Instants
    <3>3. store'.next \in Nat /\ (o.tick \in Nat \/ o.tick = 0)
      BY <1>1, <1>4, <3>2 DEF Row, Op
    <3>. QED BY <1>1, <1>7, <2>2, <3>1, <3>2, <3>3 DEF Past
  <2>. QED BY <1>1, <2>1, <2>2
<1>8b. o.op \in {"create", "update"} => ticks[store'.next].state # "failed"
  <2>1. store'.next \in Horizon /\ store'.next \in Nat
    BY <1>4, Instants DEF Row
  <2>. QED BY <1>8a, <2>1
<1>8. Knows(on, store', ticks') /\ (throws + crashes = 0 => Keeps(on, store', ticks'))
  <2>1. Knows(on, store', ticks')
    <3>1. ticks' = ticks /\ on.pc = "list"
      BY <1>1, <1>6
    <3>2. on.op \in {"create", "update"} => ticks'[store'.next].state # "failed"
      BY <1>6, <1>8b, <3>1
    <3>3. on.op \in {"create", "update", "fire"}
      BY <1>1, <1>6
    <3>. QED BY <1>5, <1>6, <1>7, <3>1, <3>2, <3>3 DEF Knows
  <2>2. throws + crashes = 0 => Keeps(on, store', ticks')
    BY <1>1, <1>6, <1>8a DEF Keeps
  <2>. QED BY <2>1, <2>2
<1>9. /\ \A t \in Horizon : triggered[t] > 0 => t <= store'.next
      /\ triggered[store'.next] <= throws + crashes
  <2>1. store'.next \in Horizon /\ store'.next \in Nat
    BY <1>4, Instants DEF Row
  <2>2. triggered[store'.next] \in Nat /\ throws \in Nat /\ crashes \in Nat
    BY <2>1, TypeFacts DEF AloneInv, TypeInv
  <2>3. ~(triggered[store'.next] > 0)
    BY <1>2, <1>4, <2>1
  <2>4. triggered[store'.next] <= throws + crashes
    BY <2>2, <2>3
  <2>5. \A t \in Horizon : triggered[t] > 0 => t <= store'.next
    <3>1. \A t \in Horizon : triggered[t] > 0 => t < store'.next
      BY <1>2, <1>4
    <3>. QED BY <2>1, <3>1, Instants
  <2>. QED BY <2>4, <2>5
<1>. HIDE DEF Knows, Keeps, OfCron, Wrote, Carries
<1>10. AloneInv'
  BY <1>1, <1>2, <1>4, <1>5, <1>6, <1>8, <1>9, AloneQuiet DEF counts
<1>11. ops'[p] # Idle
  BY <1>1, <1>4, <1>6, IdleFacts
<1>. QED BY <1>10, <1>11

LEMMA AloneList ==
  ASSUME AloneInv, TypeInv', NEW p \in Procs, List(p)
  PROVE  AloneInv' /\ ops'[p] # Idle
<1>. DEFINE o == ops[p]
            on == [o EXCEPT !.pc = "remove", !.listed = {t \in Horizon : ticks[t].state = "delayed"}]
<1>1. o \in Op /\ ops \in [Procs -> Op]
  BY TypeFacts DEF AloneInv, TypeInv
<1>2. /\ o.op # "idle" /\ o.pc = "list" /\ ops' = [ops EXCEPT ![p] = on]
      /\ UNCHANGED <<now, store, ticks, triggered, counts>>
  BY <1>1 DEF List
<1>3. /\ on \in Op /\ on.op = o.op /\ on.pc = "remove" /\ on.row = o.row /\ on.tick = o.tick
      /\ \A t \in Horizon : ticks[t].state = "delayed" => t \in on.listed
  BY <1>1 DEF Op
<1>4. /\ Sole(p) /\ OfCron(store) /\ Knows(o, store, ticks)
      /\ store # None /\ ~Wrote(o) => triggered[store.next] <= throws + crashes
      /\ throws + crashes = 0 => Keeps(o, store, ticks)
  BY <1>2, Under
<1>. HIDE DEF o, on
<1>5. Knows(on, store, ticks) /\ (throws + crashes = 0 => Keeps(on, store, ticks)) /\ ~Wrote(o)
  BY <1>2, <1>3, <1>4 DEF Knows, Keeps, Wrote
<1>6. \A t \in Horizon : triggered[t] > 0 => (store # None => t <= store.next)
  BY DEF AloneInv, OnceInv
<1>7. ops'[p] # Idle
  BY <1>1, <1>2, <1>3, IdleFacts
<1>. HIDE DEF Knows, Keeps, OfCron, Wrote
<1>. QED BY <1>2, <1>3, <1>4, <1>5, <1>6, <1>7, AloneQuiet DEF counts

LEMMA AloneRemove ==
  ASSUME AloneInv, TypeInv', NEW p \in Procs, NEW t \in Horizon, Remove(p, t)
  PROVE  AloneInv' /\ ops'[p] # Idle
<1>. DEFINE o == ops[p]
            on == [o EXCEPT !.listed = o.listed \ {t}]
<1>1. o \in Op /\ ops \in [Procs -> Op]
  BY TypeFacts DEF AloneInv, TypeInv
<1>2. /\ o.op # "idle" /\ o.pc = "remove" /\ ops' = [ops EXCEPT ![p] = on]
      /\ UNCHANGED <<now, store, triggered, counts>>
      /\ \A u \in Horizon : ticks'[u] = IF u = t /\ ticks[u].state # "active" THEN NoTick ELSE ticks[u]
  BY RemoveFacts DEF AloneInv
<1>3. /\ on \in Op /\ on.op = o.op /\ on.pc = "remove" /\ on.row = o.row /\ on.tick = o.tick
      /\ on.listed = o.listed \ {t}
  BY <1>1, <1>2 DEF Op
<1>4. /\ Sole(p) /\ OfCron(store) /\ Knows(o, store, ticks)
      /\ store # None /\ ~Wrote(o) => triggered[store.next] <= throws + crashes
      /\ throws + crashes = 0 => Keeps(o, store, ticks)
      /\ store # None => store.next \in Horizon
  BY <1>2, Under, TypeFacts DEF AloneInv, TypeInv, Row
<1>. HIDE DEF o, on
<1>5. \A u \in Horizon : /\ ticks'[u].state = "delayed" => ticks[u].state = "delayed" /\ u # t
                         /\ ticks'[u].state = "failed" => ticks[u].state = "failed"
  BY <1>2 DEF NoTick
<1>5a. Past(store, ticks) => Past(store, ticks')
  BY <1>5 DEF Past
<1>6. \A u \in Horizon : ticks'[u].state = "delayed" => u \in on.listed
  BY <1>2, <1>3, <1>4, <1>5 DEF Knows
<1>7. Knows(on, store, ticks') /\ (throws + crashes = 0 => Keeps(on, store, ticks')) /\ ~Wrote(o)
  <2>1. Knows(on, store, ticks')
    BY <1>2, <1>3, <1>4, <1>5, <1>6 DEF Knows
  <2>. QED BY <1>2, <1>3, <1>4, <1>5a, <2>1 DEF Keeps, Wrote
<1>8. \A u \in Horizon : triggered[u] > 0 => (store # None => u <= store.next)
  BY DEF AloneInv, OnceInv
<1>9. ops'[p] # Idle
  BY <1>1, <1>2, <1>3, IdleFacts
<1>. HIDE DEF Knows, Keeps, OfCron, Wrote
<1>. QED BY <1>2, <1>3, <1>4, <1>7, <1>8, <1>9, AloneQuiet DEF counts

(* An operation that has removed the delayed ticks and enqueues the one of   *)
(* its row leaves that one and no other, whatever failed before, unless the  *)
(* id of its tick is one that failed, which is kept from creates and updates. *)
LEMMA AloneFinish ==
  ASSUME AloneInv, TypeInv', NEW p \in Procs, Finish(p)
  PROVE  /\ AloneInv' /\ Clean(store', ticks')
         /\ ~SpentTick => Ready(store', ticks')
         /\ ops[p].op \in {"create", "update"} => ~SpentTick
<1>. DEFINE o == ops[p]
            on == IF o.op = "fire" THEN [o EXCEPT !.pc = "settle"] ELSE Idle
<1>1. o \in Op /\ Carries(o) /\ store \in Row \cup {None} /\ TickInv /\ \A t \in Horizon : ticks[t] \in Tick
  BY TypeFacts DEF AloneInv, TypeInv
<1>2. /\ o.op # "idle" /\ o.pc = "remove" /\ o.listed = {} /\ ops' = [ops EXCEPT ![p] = on]
      /\ UNCHANGED <<now, triggered, counts>> /\ store' = IF o.op = "delete" THEN None ELSE store
      /\ \A t \in Horizon : ticks'[t] =
           IF o.row # None /\ o.row.active /\ o.row.next = t /\ ticks[t].state = "none"
             THEN [ticks[t] EXCEPT !.state = IF t > now THEN "delayed" ELSE "waiting"] ELSE ticks[t]
  BY FinishFacts DEF AloneInv
<1>3. on \in Op /\ on.op \in {"idle", "fire"} /\ (on.op = "fire" => on.pc = "settle") /\ (on.op = "idle" => on = Idle)
  BY <1>1, IdleFacts DEF Op
<1>4. /\ Sole(p) /\ OfCron(store) /\ Knows(o, store, ticks)
      /\ store # None /\ ~Wrote(o) => triggered[store.next] <= throws + crashes
      /\ throws + crashes = 0 => Keeps(o, store, ticks)
  BY <1>2, Under
<1>4a. o.op \in {"create", "update"} => ~SpentTick
  BY <1>2, <1>4 DEF Knows, SpentTick
<1>4b. throws + crashes = 0 => ~SpentTick
  <2>. SUFFICES ASSUME throws + crashes = 0, SpentTick PROVE FALSE
    OBVIOUS
  <2>1. store.next \in Horizon /\ store.next \in Nat
    BY <1>1, Instants DEF SpentTick, Row
  <2>. QED BY <1>4, <2>1 DEF Keeps, Past, SpentTick
<1>5. o.op \in {"create", "update", "activate", "fire", "deactivate", "delete"}
  BY <1>1, <1>2 DEF Op
<1>. HIDE DEF o, on
<1>6. \/ o.op \in {"create", "update", "activate", "fire"} /\ store' = store /\ store # None /\ o.row = store
      \/ o.op = "deactivate" /\ store' = store /\ store # None /\ ~store.active /\ o.row = None
      \/ o.op = "delete" /\ store' = None /\ o.row = None
  BY <1>1, <1>2, <1>4, <1>5 DEF Knows, Carries
<1>7. \A t \in Horizon : ticks[t].state # "delayed"
  BY <1>2, <1>4 DEF Knows
<1>8. \A t \in Horizon :
        \/ ticks'[t] = ticks[t] /\ ~(o.row # None /\ o.row.active /\ o.row.next = t /\ ticks[t].state = "none")
        \/ /\ o.row # None /\ o.row.active /\ o.row.next = t
           /\ ticks'[t].state \in {"delayed", "waiting"}
  <2>. TAKE t \in Horizon
  <2>1. CASE o.row # None /\ o.row.active /\ o.row.next = t /\ ticks[t].state = "none"
    <3>. DEFINE k == IF t > now THEN "delayed" ELSE "waiting"
    <3>1. k \in {"delayed", "waiting"} /\ ticks'[t] = [ticks[t] EXCEPT !.state = k]
      BY <1>2, <2>1
    <3>. HIDE DEF k
    <3>2. ticks'[t].state = k
      BY <1>1, <3>1 DEF Tick
    <3>. QED BY <2>1, <3>1, <3>2
  <2>2. CASE ~(o.row # None /\ o.row.active /\ o.row.next = t /\ ticks[t].state = "none")
    BY <1>2, <2>2
  <2>. QED BY <2>1, <2>2
<1>9. Clean(store', ticks')
  BY <1>6, <1>7, <1>8 DEF Clean
<1>9a. Past(store, ticks) => Past(store', ticks')
  <2>1. \A t \in Horizon : ticks'[t].state = "failed" => ticks[t].state = "failed"
    BY <1>8
  <2>. QED BY <1>6, <2>1 DEF Past
<1>10. ~SpentTick => Ready(store', ticks')
  <2>. SUFFICES ASSUME ~SpentTick, store' # None, store'.active PROVE ticks'[store'.next].state \in {"delayed", "waiting"}
    BY DEF Ready
  <2>1. o.op \in {"create", "update", "activate", "fire"} /\ store' = store /\ store # None /\ o.row = store
    BY <1>6
  <2>2. store.next \in Horizon
    BY <1>1, <2>1 DEF Row
  <2>3. ticks[store.next].state # "active"
    <3>. SUFFICES ASSUME ticks[store.next].state = "active" PROVE FALSE
      OBVIOUS
    <3>1. PICK q \in Procs : ops[q].op = "fire" /\ ops[q].tick = store.next
      BY <1>1, <2>2 DEF TickInv
    <3>2. q = p
      BY <1>4, <3>1, IdleFacts DEF Sole
    <3>3. o.op = "fire" /\ o.tick = store.next /\ store.next > o.tick /\ store.next \in Nat
      BY <1>2, <1>4, <2>2, <3>1, <3>2, Instants DEF Knows, o
    <3>. QED BY <3>3
  <2>4. ticks[store.next].state \in {"none", "waiting"}
    BY <1>1, <1>7, <2>1, <2>2, <2>3 DEF Tick, SpentTick
  <2>. QED BY <1>8, <2>1, <2>2, <2>4
<1>10a. on.op = "fire" => store' = None \/ store'.next > on.tick
  <2>1. on.op = "fire" => o.op = "fire" /\ on.tick = o.tick
    BY <1>1, IdleFacts DEF on, Op
  <2>. QED BY <1>2, <1>4, <1>6, <2>1 DEF Knows
<1>11. Knows(on, store', ticks') /\ OfCron(store') /\ ~Wrote(o) /\ ~(on.op # "idle" /\ on.pc = "write")
  BY <1>2, <1>3, <1>4, <1>6, KnowsIdle DEF Knows, Wrote, OfCron
<1>11a. throws + crashes = 0 => Keeps(on, store', ticks')
  BY <1>3, <1>4, <1>4b, <1>9, <1>9a, <1>10, <1>10a DEF Keeps
<1>12. \A u \in Horizon : triggered[u] > 0 => (store # None => u <= store.next)
  BY DEF AloneInv, OnceInv
<1>13. store' # None => store' = store
  BY <1>6
<1>. HIDE DEF Knows, Keeps, OfCron, Wrote, Ready, Clean
<1>14. AloneInv'
  BY <1>2, <1>3, <1>4, <1>9, <1>11, <1>11a, <1>12, <1>13, AloneQuiet DEF counts
<1>. QED BY <1>4a, <1>9, <1>10, <1>14 DEF o

LEMMA AloneRead ==
  ASSUME AloneInv, TypeInv', NEW p \in Procs, Read(p)
  PROVE  AloneInv'
<1>. DEFINE o == ops[p]
            n == NextRun(store.cron, o.tick)
            on == [o EXCEPT !.pc = "trigger", !.next = n]
            off == [o EXCEPT !.pc = "settle"]
<1>1. /\ o.op = "fire" /\ o.pc = "read" /\ UNCHANGED <<now, store, ticks, triggered, counts>>
      /\ \/ /\ Fires(o.tick) /\ n \in Times[store.cron] /\ n \in Horizon /\ n > o.tick
            /\ ops' = [ops EXCEPT ![p] = on]
         \/ ~Fires(o.tick) /\ ops' = [ops EXCEPT ![p] = off]
  BY ReadFacts DEF AloneInv
<1>2. o \in Op /\ ~o.failed
  BY <1>1, TypeFacts DEF AloneInv, TypeInv, Carries
<1>3. /\ Sole(p) /\ OfCron(store) /\ Knows(o, store, ticks)
      /\ throws + crashes = 0 => Keeps(o, store, ticks)
      /\ store # None /\ ~Wrote(o) => triggered[store.next] <= throws + crashes
  BY <1>1, Under
<1>4. ~Wrote(o) /\ \A u \in Horizon : triggered[u] > 0 => (store # None => u <= store.next)
  BY <1>1 DEF AloneInv, OnceInv, Wrote
<1>. HIDE DEF n
<1>5. off \in Op /\ off.op = "fire" /\ off.pc = "settle" /\ ~off.failed
  BY <1>1, <1>2 DEF Op
<1>6. n \in Horizon => /\ on \in Op /\ on.op = "fire" /\ on.pc = "trigger" /\ on.tick = o.tick /\ on.next = n
  BY <1>1, <1>2 DEF Op
<1>. HIDE DEF o, on, off
<1>7. CASE /\ Fires(o.tick) /\ n \in Times[store.cron] /\ n \in Horizon /\ n > o.tick
           /\ ops' = [ops EXCEPT ![p] = on]
  <2>1. Knows(on, store, ticks)
    BY <1>6, <1>7 DEF Knows, Fires
  <2>2. throws + crashes = 0 => Keeps(on, store, ticks)
    BY <1>1, <1>3, <1>6, <1>7 DEF Keeps
  <2>3. on \in Op /\ on.pc = "trigger"
    BY <1>6, <1>7
  <2>. HIDE DEF Knows, Keeps, OfCron, Wrote
  <2>. QED BY <1>1, <1>3, <1>4, <1>7, <2>1, <2>2, <2>3, AloneQuiet DEF counts
<1>8. CASE ~Fires(o.tick) /\ ops' = [ops EXCEPT ![p] = off]
  <2>1. Knows(off, store, ticks)
    BY <1>5 DEF Knows
  <2>2. throws + crashes = 0 => Keeps(off, store, ticks)
    <3>1. Ready(store, ticks) \/ store.next = o.tick => Ready(store, ticks)
      BY <1>8 DEF Ready, Fires
    <3>. HIDE DEF Ready, Clean, Past
    <3>. QED BY <1>1, <1>3, <1>5, <3>1 DEF Keeps
  <2>. HIDE DEF Knows, Keeps, OfCron, Wrote
  <2>. QED BY <1>1, <1>3, <1>4, <1>5, <1>8, <2>1, <2>2, AloneQuiet DEF counts
<1>. QED BY <1>1, <1>7, <1>8

LEMMA AloneTrigger ==
  ASSUME AloneInv, TypeInv', NEW p \in Procs, Trigger(p)
  PROVE  /\ AloneInv' /\ ops'[p] # Idle
         /\ Fires(ops[p].tick) /\ OfCron(store) /\ ops[p].tick <= now
         /\ \A t \in Horizon : triggered'[t] # triggered[t] => t = ops[p].tick
<1>. DEFINE o == ops[p]
<1>1. /\ o.op = "fire" /\ o.pc = "trigger" /\ UNCHANGED <<now, store, ticks, counts>>
      /\ o.tick \in Horizon /\ o.tick <= now
  BY TriggerFacts DEF AloneInv
<1>2. PICK ok \in BOOLEAN :
        /\ triggered' = [triggered EXCEPT ![o.tick] = IF ok THEN triggered[o.tick] + 1 ELSE triggered[o.tick]]
        /\ ops' = [ops EXCEPT ![p] = [o EXCEPT !.pc = "write", !.failed = ~ok]]
  BY TriggerFacts DEF AloneInv
<1>. DEFINE on == [o EXCEPT !.pc = "write", !.failed = ~ok]
<1>3. /\ o \in Op /\ o.cron = "none" /\ ops \in [Procs -> Op] /\ triggered \in [Horizon -> Nat]
      /\ throws \in Nat /\ crashes \in Nat
  BY <1>1, TypeFacts DEF AloneInv, TypeInv, Carries
<1>4. /\ on \in Op /\ on.op = "fire" /\ on.pc = "write" /\ on.cron = "none" /\ on.tick = o.tick /\ on.next = o.next
  BY <1>1, <1>3 DEF Op
<1>5. /\ Sole(p) /\ OfCron(store) /\ Knows(o, store, ticks)
      /\ throws + crashes = 0 => Keeps(o, store, ticks)
      /\ store # None /\ ~Wrote(o) => triggered[store.next] <= throws + crashes
  BY <1>1, Under
<1>6. ops' = [ops EXCEPT ![p] = on]
  BY <1>2
<1>. HIDE DEF o, on
<1>7. /\ store # None /\ store.active /\ store.next = o.tick /\ o.next > o.tick /\ o.next \in Times[store.cron]
      /\ triggered[o.tick] <= throws + crashes
  BY <1>1, <1>5 DEF Knows, Wrote
<1>8. \A t \in Horizon : t \in Nat
  BY Instants
<1>9. o.next \in Nat
  BY <1>3, NextIsNat
<1>10. Knows(on, store, ticks)
  <2>1. o.next > 0
    BY <1>1, <1>7, <1>8, <1>9
  <2>. QED BY <1>4, <1>7, <2>1 DEF Knows
<1>11. throws + crashes = 0 => Keeps(on, store, ticks)
  BY <1>1, <1>4, <1>5 DEF Keeps
<1>12. /\ \A t \in Horizon : t # o.tick => triggered'[t] = triggered[t]
       /\ triggered'[o.tick] \in Nat /\ triggered'[o.tick] <= triggered[o.tick] + 1
  BY <1>1, <1>2, <1>3
<1>13. \A t \in Horizon : triggered'[t] <= 1 + throws + crashes
  <2>. TAKE t \in Horizon
  <2>1. CASE t = o.tick
    <3>1. triggered[o.tick] \in Nat /\ triggered[o.tick] <= throws + crashes
      BY <1>1, <1>3, <1>7
    <3>. QED BY <1>3, <1>12, <2>1, <3>1
  <2>2. CASE t # o.tick
    BY <1>12, <2>2 DEF AloneInv, OnceInv, TriggeredOnce
  <2>. QED BY <2>1, <2>2
<1>14. ASSUME NEW t \in Horizon, triggered'[t] > 0
       PROVE  t <= now /\ t <= store.next /\ t < o.next
  <2>1. CASE t = o.tick
    BY <1>1, <1>7, <1>8, <1>9, <2>1
  <2>2. CASE t # o.tick
    <3>1. t <= now /\ t <= store.next
      BY <1>7, <1>12, <1>14, <2>2 DEF AloneInv, OnceInv
    <3>. QED BY <1>1, <1>7, <1>8, <1>9, <3>1
  <2>. QED BY <2>1, <2>2
<1>15. Fires(o.tick)
  BY <1>7 DEF Fires
<1>16. Wrote(on)
  BY <1>4 DEF Wrote
<1>17. AloneInv'
  <2>. HIDE DEF Knows, Keeps, OfCron, Wrote
  <2>. QED BY <1>1, <1>4, <1>5, <1>6, <1>10, <1>11, <1>13, <1>14, <1>16, AloneStep DEF AloneInv, counts
<1>18. ops'[p] # Idle
  BY <1>3, <1>4, <1>6, IdleFacts
<1>. QED BY <1>1, <1>5, <1>12, <1>15, <1>17, <1>18 DEF o

LEMMA AloneSettle ==
  ASSUME AloneInv, TypeInv', NEW p \in Procs, Settle(p)
  PROVE  AloneInv' /\ ops[p].op = "fire"
<1>. DEFINE o == ops[p]
<1>1. /\ o.op = "fire" /\ o.pc = "settle" /\ o.tick \in Horizon /\ ticks[o.tick].state = "active"
      /\ ops' = [ops EXCEPT ![p] = Idle] /\ UNCHANGED <<now, store, triggered, counts>>
      /\ \A t \in Horizon : t # o.tick => ticks'[t] = ticks[t]
      /\ ticks'[o.tick].state = "delayed" => ticks'[o.tick].made > 0
      /\ ticks'[o.tick].state = "failed" => o.failed
  BY SettleFacts DEF AloneInv
<1>2. /\ Sole(p) /\ OfCron(store) /\ Knows(o, store, ticks)
      /\ throws + crashes = 0 => Keeps(o, store, ticks)
      /\ store # None /\ ~Wrote(o) => triggered[store.next] <= throws + crashes
  BY <1>1, Under
<1>. HIDE DEF o
<1>3. store # None => store.next \in Horizon
  BY TypeFacts DEF AloneInv, TypeInv, Row
<1>4. ticks' \in [Horizon -> Tick]
  BY TypeFacts DEF TypeInv, TypeOK
<1>5. Ready(store, ticks) => Ready(store, ticks')
  BY <1>1, <1>3 DEF Ready
<1>6. Clean(store, ticks) => Clean(store, ticks')
  <2>1. ~(ticks'[o.tick].state = "delayed" /\ ticks'[o.tick].made = 0)
    BY <1>1, <1>4
  <2>. QED BY <1>1, <2>1 DEF Clean
<1>6a. throws + crashes = 0 => Past(store, ticks')
  <2>1. throws + crashes = 0 => Past(store, ticks) /\ (o.failed => store = None \/ o.tick < store.next)
    <3>1. store # None => store.next \in Nat
      BY <1>3, Instants
    <3>. QED BY <1>1, <1>2, <3>1, Instants DEF Keeps
  <2>. QED BY <1>1, <2>1 DEF Past
<1>7. throws + crashes = 0 => Keeps(Idle, store, ticks')
  BY <1>1, <1>2, <1>5, <1>6, <1>6a, IdleFacts DEF Keeps
<1>8. ~Wrote(o) /\ \A u \in Horizon : triggered[u] > 0 => (store # None => u <= store.next)
  BY <1>1 DEF AloneInv, OnceInv, Wrote
<1>. HIDE DEF Knows, Keeps, OfCron, Wrote
<1>. QED BY <1>1, <1>2, <1>7, <1>8, IdleFacts, KnowsIdle, AloneQuiet DEF counts, o

(* A throw or a crash is one more time that the instant may be triggered.    *)
LEMMA OneMore ==
  ASSUME NEW a \in Nat, NEW b \in Nat, NEW c \in Nat, NEW d \in Nat, c + d = a + b + 1
  PROVE  /\ ~(c + d = 0)
         /\ \A n \in Nat : n <= 1 + a + b => n <= c + d /\ n <= 1 + c + d
OBVIOUS

LEMMA AloneFails ==
  ASSUME AloneInv, TypeInv', NEW p \in Procs, NEW o \in Op, ops[p].op # "idle",
         ops' = [ops EXCEPT ![p] = o], now' = now, store' = store, triggered' = triggered,
         throws' + crashes' = throws + crashes + 1,
         o = Idle \/ (o.op = "fire" /\ o.pc = "settle")
  PROVE  AloneInv'
<1>1. Sole(p) /\ OfCron(store)
  BY Under
<1>2. Knows(o, store, ticks')
  BY IdleFacts DEF Knows
<1>3. throws \in Nat /\ crashes \in Nat /\ throws' \in Nat /\ crashes' \in Nat /\ triggered \in [Horizon -> Nat]
  BY TypeFacts DEF AloneInv, TypeInv, TypeOK
<1>4. \A t \in Horizon : triggered[t] <= 1 + throws + crashes
  BY DEF AloneInv, OnceInv, TriggeredOnce
<1>m. /\ ~(throws' + crashes' = 0)
      /\ \A n \in Nat : n <= 1 + throws + crashes => n <= throws' + crashes' /\ n <= 1 + throws' + crashes'
  BY <1>3, OneMore
<1>5. \A t \in Horizon : triggered[t] <= 1 + throws' + crashes' /\ triggered[t] <= throws' + crashes'
  BY <1>3, <1>4, <1>m
<1>6. store # None => store.next \in Horizon
  BY TypeFacts DEF AloneInv, TypeInv, Row
<1>7. store # None => triggered[store.next] <= throws' + crashes'
  BY <1>5, <1>6
<1>8. \A t \in Horizon : triggered[t] > 0 => t <= now /\ (store # None => t <= store.next)
  BY DEF AloneInv, OnceInv
<1>9. ~(throws' + crashes' = 0) /\ ~(o.op # "idle" /\ o.pc = "write")
  BY <1>m, IdleFacts
<1>. HIDE DEF Knows, Keeps, OfCron, Wrote
<1>. QED BY <1>1, <1>2, <1>5, <1>7, <1>8, <1>9, AloneStep DEF AloneInv

LEMMA AloneThrow ==
  ASSUME AloneInv, TypeInv', NEW p \in Procs, Throw(p) \/ Crash(p)
  PROVE  AloneInv' /\ (ops[p].op = "fire" \/ throws' # throws)
<1>1. /\ throws \in Nat /\ crashes \in Nat /\ ops[p] \in Op
  BY TypeFacts DEF AloneInv, TypeInv
<1>2. CASE Throw(p)
  <2>. DEFINE on == IF ops[p].op = "fire" THEN [ops[p] EXCEPT !.pc = "settle", !.failed = TRUE] ELSE Idle
  <2>1. /\ ops[p].op # "idle" /\ throws' = throws + 1 /\ ops' = [ops EXCEPT ![p] = on]
        /\ UNCHANGED <<now, store, ticks, triggered, calls, crashes>>
    BY <1>2, ThrowFacts DEF AloneInv
  <2>2. on \in Op /\ (on = Idle \/ (on.op = "fire" /\ on.pc = "settle"))
    BY <1>1, IdleFacts, SettledOp
  <2>3. throws' # throws /\ throws' + crashes' = throws + crashes + 1
    BY <1>1, <2>1
  <2>. HIDE DEF on
  <2>. QED BY <2>1, <2>2, <2>3, AloneFails
<1>3. CASE Crash(p)
  <2>1. /\ ops[p].op = "fire" /\ crashes' = crashes + 1 /\ ops' = [ops EXCEPT ![p] = Idle]
        /\ UNCHANGED <<now, store, triggered, calls, throws>>
    BY <1>3, CrashFacts DEF AloneInv
  <2>2. throws' + crashes' = throws + crashes + 1
    BY <1>1, <2>1
  <2>. QED BY <2>1, <2>2, IdleFacts, AloneFails
<1>. QED BY <1>2, <1>3

LEMMA AloneDue ==
  ASSUME AloneInv, TypeInv', NEW t \in Horizon, Due(t)
  PROVE  AloneInv'
<1>1. /\ ticks[t].state = "delayed" /\ UNCHANGED <<now, store, ops, triggered, counts>>
      /\ \A u \in Horizon : ticks'[u] = IF u = t THEN [ticks[u] EXCEPT !.state = "waiting"] ELSE ticks[u]
  BY DueFacts DEF AloneInv
<1>2. ticks[t] \in Tick
  BY TypeFacts DEF AloneInv, TypeInv
<1>3. ticks'[t].state = "waiting" /\ \A u \in Horizon : u # t => ticks'[u] = ticks[u]
  BY <1>1, <1>2 DEF Tick
<1>5. store # None => store.next \in Horizon
  BY TypeFacts DEF AloneInv, TypeInv, Row
<1>4. \A o : Knows(o, store, ticks) => Knows(o, store, ticks')
  <2>1. \A u \in Horizon : /\ ticks'[u].state = "delayed" => ticks[u].state = "delayed"
                           /\ ticks'[u].state = "failed" => ticks[u].state = "failed"
    BY <1>3
  <2>. QED BY <1>5, <2>1 DEF Knows
<1>6. Ready(store, ticks) => Ready(store, ticks')
  BY <1>3, <1>5 DEF Ready
<1>7. Clean(store, ticks) => Clean(store, ticks')
  BY <1>3 DEF Clean
<1>7a. Past(store, ticks) => Past(store, ticks')
  BY <1>3 DEF Past
<1>8. \A o : Keeps(o, store, ticks) => Keeps(o, store, ticks')
  <2>. HIDE DEF Ready, Clean, Past
  <2>. QED BY <1>6, <1>7, <1>7a DEF Keeps
<1>9. UNCHANGED <<throws, crashes>>
  BY <1>1 DEF counts
<1>. HIDE DEF Ready, Clean, Past, Knows, Keeps, OfCron, Wrote
<1>10. RowInv' /\ KeptInv' /\ Alone'
  BY <1>1, <1>4, <1>6, <1>7, <1>7a, <1>8, <1>9 DEF AloneInv, RowInv, KeptInv, Alone, Busy
<1>11. OnceInv'
  BY <1>1, <1>9 DEF AloneInv, OnceInv, TriggeredOnce
<1>. QED BY <1>10, <1>11 DEF AloneInv

LEMMA AloneForget ==
  ASSUME AloneInv, TypeInv', NEW t \in Horizon, Forget(t)
  PROVE  AloneInv'
<1>1. /\ ticks[t].state = "failed" /\ UNCHANGED <<now, store, ops, triggered, counts>>
      /\ \A u \in Horizon : ticks'[u] = IF u = t THEN NoTick ELSE ticks[u]
  BY ForgetFacts DEF AloneInv
<1>2. \A u \in Horizon : ticks'[u] = ticks[u] \/ (ticks'[u].state = "none" /\ ticks[u].state = "failed")
  BY <1>1 DEF NoTick
<1>3. store # None => store.next \in Horizon
  BY TypeFacts DEF AloneInv, TypeInv, Row
<1>4. \A o : Knows(o, store, ticks) => Knows(o, store, ticks')
  BY <1>2, <1>3 DEF Knows
<1>5. /\ Ready(store, ticks) => Ready(store, ticks')
      /\ Clean(store, ticks) => Clean(store, ticks')
      /\ Past(store, ticks) => Past(store, ticks')
  BY <1>2, <1>3 DEF Ready, Clean, Past
<1>6. \A o : Keeps(o, store, ticks) => Keeps(o, store, ticks')
  <2>. HIDE DEF Ready, Clean, Past
  <2>. QED BY <1>5 DEF Keeps
<1>7. UNCHANGED <<throws, crashes>>
  BY <1>1 DEF counts
<1>. HIDE DEF Ready, Clean, Past, Knows, Keeps, OfCron, Wrote
<1>8. RowInv' /\ KeptInv' /\ Alone'
  BY <1>1, <1>4, <1>5, <1>6, <1>7 DEF AloneInv, RowInv, KeptInv, Alone, Busy
<1>9. OnceInv'
  BY <1>1, <1>7 DEF AloneInv, OnceInv, TriggeredOnce
<1>. QED BY <1>8, <1>9 DEF AloneInv

LEMMA AloneElapse ==
  ASSUME AloneInv, TypeInv', Elapse \/ UNCHANGED vars
  PROVE  AloneInv'
<1>1. UNCHANGED <<store, ticks, ops, triggered, throws, crashes>> /\ now' >= now
  BY TypeFacts DEF Elapse, vars, counts, AloneInv, TypeInv
<1>2. now \in Nat /\ now' \in Nat /\ \A t \in Horizon : t \in Nat
  BY TypeFacts, Instants DEF AloneInv, TypeInv, TypeOK
<1>3. \A t \in Horizon : triggered[t] > 0 => t <= now'
  BY <1>1, <1>2 DEF AloneInv, OnceInv
<1>. HIDE DEF Ready, Clean, Past, Knows, Keeps, OfCron, Wrote
<1>4. RowInv' /\ KeptInv' /\ Alone'
  BY <1>1 DEF AloneInv, RowInv, KeptInv, Alone, Busy
<1>5. OnceInv'
  BY <1>1, <1>3 DEF AloneInv, OnceInv, TriggeredOnce
<1>. QED BY <1>4, <1>5 DEF AloneInv

LEMMA AloneInit == Init => AloneInv
<1>. SUFFICES ASSUME Init PROVE AloneInv
  OBVIOUS
<1>1. TypeInv
  BY TypeInit
<1>2. Busy = {} /\ store = None /\ \A p \in Procs : ops[p] = Idle
  BY IdleFacts DEF Init, Busy
<1>3. RowInv
  BY <1>2, KnowsIdle DEF RowInv, OfCron
<1>4. KeptInv
  BY <1>2 DEF Init, KeptInv, Ready, Clean, Past, NoTick
<1>5. OnceInv
  BY <1>2 DEF Init, OnceInv, TriggeredOnce
<1>. QED BY <1>1, <1>2, <1>3, <1>4, <1>5 DEF AloneInv, Alone

LEMMA AloneNext == AloneInv /\ MaxBusy <= 1 /\ [Next]_vars => AloneInv'
<1>. SUFFICES ASSUME AloneInv, MaxBusy <= 1, [Next]_vars PROVE AloneInv'
  OBVIOUS
<1>0. TypeInv'
  BY TypeNext DEF AloneInv
<1>1. ASSUME NEW p \in Procs, NEW c \in Crons, Create(p, c) PROVE AloneInv'
  <2>1. Begin(p, Creating(c)) /\ store' = store
    BY <1>1 DEF Create, Creating
  <2>2. /\ Creating(c) \in Op /\ Creating(c).next > now /\ Creating(c).next \in Times[c]
    BY Begins DEF AloneInv, TypeInv
  <2>3. Creating(c).op = "create" /\ Creating(c).pc = "write" /\ Creating(c).cron = c /\ c # "none"
    BY ConstantsAssumption DEF Creating, Idle
  <2>. QED BY <1>0, <2>1, <2>2, <2>3, AloneBegin
<1>2. ASSUME NEW p \in Procs, NEW c \in Crons \cup {"none"}, Update(p, c) PROVE AloneInv'
  <2>1. Begin(p, Updating(c)) /\ store' = store /\ store # None
    BY <1>2 DEF Update, Updating
  <2>2. /\ Updating(c) \in Op /\ Updating(c).next > now
        /\ Updating(c).next \in Times[IF c = "none" THEN store.cron ELSE c]
    BY <2>1, Begins DEF AloneInv, TypeInv
  <2>3. Updating(c).op = "update" /\ Updating(c).pc = "write" /\ Updating(c).cron = c
    BY DEF Updating, Idle
  <2>. QED BY <1>0, <2>1, <2>2, <2>3, AloneBegin
<1>3. ASSUME NEW p \in Procs, Activate(p) \/ Deactivate(p) \/ Delete(p) PROVE AloneInv'
  BY <1>0, <1>3, AloneToggle
<1>4. ASSUME NEW p \in Procs, Step(p) PROVE AloneInv'
  BY <1>0, <1>4, AloneWrite, AloneList, AloneFinish, AloneRead, AloneTrigger, AloneSettle, AloneRemove DEF Step
<1>5. ASSUME NEW p \in Procs, NEW t \in Horizon, Claim(p, t) PROVE AloneInv'
  BY <1>0, <1>5, AloneClaim
<1>6. ASSUME NEW p \in Procs, Throw(p) \/ Crash(p) PROVE AloneInv'
  BY <1>0, <1>6, AloneThrow
<1>. HIDE DEF AloneInv
<1>7. ASSUME NEW t \in Horizon, Due(t) \/ Forget(t) PROVE AloneInv'
  BY <1>0, <1>7, AloneDue, AloneForget
<1>8. CASE Elapse \/ UNCHANGED vars
  BY <1>0, <1>8, AloneElapse
<1>. QED BY <1>1, <1>2, <1>3, <1>4, <1>5, <1>6, <1>7, <1>8 DEF Next

-----------------------------------------------------------------------------
(* The theorems.                                                           *)
LEMMA KeptFollows == AloneInv => ScheduleKept /\ TriggeredOnce
<1>. SUFFICES ASSUME AloneInv PROVE ScheduleKept /\ TriggeredOnce
  OBVIOUS
<1>1. ASSUME throws + crashes = 0, Busy = {} PROVE Ready(store, ticks) /\ Clean(store, ticks)
  BY <1>1 DEF AloneInv, KeptInv
<1>2. throws + crashes = 0 => Armed /\ StaleTicksGone
  BY <1>1 DEF Ready, Clean, Armed, StaleTicksGone
<1>. QED BY <1>2 DEF ScheduleKept, AloneInv, TypeInv, OnceInv

(* While operations do not overlap and nothing fails, an active schedule     *)
(* keeps the tick of its next run, and no other, through every sequence of  *)
(* creates, updates, pauses, deletes and fires.                             *)
THEOREM ScheduleKeptCorrect ==
  ASSUME MaxBusy <= 1
  PROVE  Spec => []ScheduleKept
<1>1. AloneInv /\ [Next]_vars => AloneInv'
  BY AloneNext
<1>2. AloneInv => ScheduleKept
  BY KeptFollows
<1>. QED BY <1>1, <1>2, AloneInit, PTL DEF Spec

(* An occurrence triggers the target once, and once more at most for each    *)
(* fire or call that threw or crashed: the occurrence a fire serves is not   *)
(* later than any that was served, and is left behind when the fire writes. *)
THEOREM TriggeredOnceCorrect ==
  ASSUME MaxBusy <= 1
  PROVE  Spec => []TriggeredOnce
<1>1. AloneInv /\ [Next]_vars => AloneInv'
  BY AloneNext
<1>2. AloneInv => TriggeredOnce
  BY KeptFollows
<1>. QED BY <1>1, <1>2, AloneInit, PTL DEF Spec

(* Only a trigger step adds to the history.                                 *)
LEMMA OnlyTriggers ==
  [Next]_vars => triggered' = triggered \/ \E p \in Procs : Trigger(p)
BY DEF Next, Step, vars, Create, Update, Activate, Deactivate, Delete, Begin, Write, List, Remove, Finish, Read,
       Settle, Claim, Throw, Crash, Due, Forget, Elapse

(* What a fire triggers has come, is an instant of the cron the schedule has *)
(* by then, and the schedule is active.                                     *)
THEOREM OnCronCorrect ==
  ASSUME MaxBusy <= 1
  PROVE  Spec => OnCron
<1>. DEFINE Good == \A t \in Horizon :
                      triggered'[t] # triggered[t] =>
                        store # None /\ store.active /\ t <= now /\ t \in Times[store.cron]
<1>1. AloneInv /\ [Next]_vars => AloneInv'
  BY AloneNext
<1>2. AloneInv /\ [Next]_vars => [Good]_vars
  <2>. SUFFICES ASSUME AloneInv, Next, NEW t \in Horizon, triggered'[t] # triggered[t]
                PROVE  store # None /\ store.active /\ t <= now /\ t \in Times[store.cron]
    OBVIOUS
  <2>1. PICK p \in Procs : Trigger(p)
    BY OnlyTriggers
  <2>2. TypeInv'
    BY TypeNext DEF AloneInv
  <2>3. Fires(ops[p].tick) /\ OfCron(store) /\ ops[p].tick <= now /\ t = ops[p].tick
    BY <2>1, <2>2, AloneTrigger
  <2>. QED BY <2>3 DEF Fires, OfCron
<1>. QED BY <1>1, <1>2, AloneInit, PTL DEF Spec, OnCron

(* An operation that returns, and is not a fire, has run to its end.         *)
LEMMA Returns ==
  ASSUME AloneInv, MaxBusy <= 1, Next, NEW p \in Procs,
         ops[p].op \in {"create", "update", "activate"}, ops'[p] = Idle, throws' = throws
  PROVE  Finish(p)
<1>0. TypeInv' /\ ops \in [Procs -> Op]
  BY TypeNext, TypeFacts DEF AloneInv, TypeInv
<1>1. ops'[p] # ops[p]
  BY IdleFacts
<1>. HIDE DEF AloneInv
<1>2. ASSUME NEW q \in Procs, NEW o, ops' = [ops EXCEPT ![q] = o] PROVE q = p
  BY <1>0, <1>1, <1>2
<1>3. ASSUME NEW q \in Procs, NEW o, Begin(q, o) PROVE FALSE
  <2>1. ops' = [ops EXCEPT ![q] = o] /\ ops[q].op = "idle"
    BY <1>3 DEF Begin, Starts, Busy
  <2>. QED BY <1>2, <2>1
<1>4. ASSUME NEW q \in Procs, NEW t \in Horizon, Claim(q, t) PROVE FALSE
  <2>1. ops[q].op = "idle" /\ \E o : ops' = [ops EXCEPT ![q] = o]
    BY <1>4 DEF Claim, Starts, Busy
  <2>. QED BY <1>2, <2>1
<1>5. ASSUME NEW q \in Procs, \/ Write(q) \/ List(q) \/ Trigger(q) \/ \E t \in Horizon : Remove(q, t) PROVE FALSE
  <2>1. ops'[q] # Idle
    BY <1>0, <1>5, AloneWrite, AloneList, AloneTrigger, AloneRemove
  <2>2. \E o : ops' = [ops EXCEPT ![q] = o]
    <3>1. CASE Write(q)
      BY <3>1 DEF Write
    <3>2. CASE List(q)
      BY <1>0, <3>2 DEF List
    <3>3. CASE Trigger(q)
      BY <3>3 DEF Trigger
    <3>4. CASE \E t \in Horizon : Remove(q, t)
      BY <1>0, <3>4 DEF Remove
    <3>. QED BY <1>5, <3>1, <3>2, <3>3, <3>4
  <2>. QED BY <1>2, <2>1, <2>2
<1>6. ASSUME NEW q \in Procs, Read(q) \/ Settle(q) \/ Throw(q) \/ Crash(q) PROVE FALSE
  <2>1. ops[q].op = "fire" \/ throws' # throws
    BY <1>0, <1>6, AloneThrow DEF Read, Settle
  <2>2. \E o : ops' = [ops EXCEPT ![q] = o]
    BY <1>6 DEF Read, Settle, Throw, Crash
  <2>. QED BY <1>2, <2>1, <2>2
<1>7. ASSUME NEW q \in Procs, Finish(q) PROVE q = p
  <2>1. \E o : ops' = [ops EXCEPT ![q] = o]
    BY <1>7 DEF Finish
  <2>. QED BY <1>2, <2>1
<1>8. CASE Elapse \/ \E t \in Horizon : Due(t) \/ Forget(t)
  BY <1>1, <1>8 DEF Elapse, Due, Forget
<1>9. ASSUME NEW q \in Procs, NEW c, Create(q, c) \/ Update(q, c) PROVE FALSE
  BY <1>3, <1>9 DEF Create, Update
<1>10. ASSUME NEW q \in Procs, Activate(q) \/ Deactivate(q) \/ Delete(q) PROVE FALSE
  BY <1>3, <1>10 DEF Activate, Deactivate, Delete
<1>. QED BY <1>4, <1>5, <1>6, <1>7, <1>8, <1>9, <1>10 DEF Next, Step

(* A create or an update that returns leaves the schedule armed and no tick  *)
(* that is stale, whatever failed before: the instant it computed is later   *)
(* than every tick that failed.  So does an activate, unless the tick of the *)
(* row's occurrence failed for good and the transport still keeps it.       *)
THEOREM RearmsCorrect ==
  ASSUME MaxBusy <= 1
  PROVE  Spec => Rearms
<1>. DEFINE Good == \A p \in Procs :
                      ops[p].op \in {"create", "update", "activate"} /\ ops'[p] = Idle /\ throws' = throws =>
                        /\ StaleTicksGone'
                        /\ Armed' \/ (ops[p].op = "activate" /\ SpentTick)
<1>1. AloneInv /\ [Next]_vars => AloneInv'
  BY AloneNext
<1>2. AloneInv /\ [Next]_vars => [Good]_vars
  <2>. SUFFICES ASSUME AloneInv, Next, NEW p \in Procs,
                       ops[p].op \in {"create", "update", "activate"}, ops'[p] = Idle, throws' = throws
                PROVE  StaleTicksGone' /\ (Armed' \/ (ops[p].op = "activate" /\ SpentTick))
    OBVIOUS
  <2>1. Finish(p)
    BY Returns
  <2>2. TypeInv'
    BY TypeNext DEF AloneInv
  <2>3. /\ Clean(store', ticks') /\ (~SpentTick => Ready(store', ticks'))
        /\ ops[p].op \in {"create", "update"} => ~SpentTick
    BY <2>1, <2>2, AloneFinish
  <2>4. StaleTicksGone'
    BY <2>3 DEF Clean, StaleTicksGone
  <2>5. ~SpentTick => Armed'
    BY <2>3 DEF Ready, Armed
  <2>. QED BY <2>3, <2>4, <2>5
<1>. QED BY <1>1, <1>2, AloneInit, PTL DEF Spec, Rearms
============================================================================
