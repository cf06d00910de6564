------------------------------- MODULE Alerts -------------------------------
(***************************************************************************)
(* The dashboard's AlertManager (workbench/src/core/alert-manager.ts):     *)
(* handlers of queue events, and health checks that an interval starts     *)
(* whether or not the one before has ended.  Each goes rule by rule        *)
(* through the same firing path, with awaits of the alert store, of the    *)
(* queues and of the delivery between.  What a check is told of the queues *)
(* is any answer: the page it reads may be older than anything it saw      *)
(* before (Workbench).                                                     *)
(***************************************************************************)
EXTENDS Naturals, Sequences, FiniteSets

CONSTANTS
  Watched,     \* the queues of the dashboard
  Checks,      \* health checks at a time
  Handlers,    \* handlers of queue events at a time
  HealthRules, \* rules about a backlog
  EventRules,  \* rules about a failed job
  Cooldown,    \* ticks from one firing of a fingerprint to the next
  Cap,         \* the entries of the cooldown map
  NoAlert      \* no event

ASSUME AlertsAssumption == Cooldown \in Nat \ {0} /\ Cap \in Nat \ {0}

VARIABLES
  runs,      \* runs[x]: where a check or a handler is
  cooldowns, \* the map of cooldowns, in the order of its keys
  active,    \* activeHealthAlerts
  recent,    \* the newest of recentEvents
  gap, evicted \* history: ticks since a fingerprint last fired; those evicted early

alertVars == <<runs, cooldowns, active, recent, gap, evicted>>

(* buildFingerprint, and the one that a health check puts together.         *)
Rules == HealthRules \cup EventRules
Trigger(rule) == IF rule \in HealthRules THEN "failed_backlog" ELSE "job_failed"
Fingerprint(rule, q) == <<rule, Trigger(rule), q>>
HealthKey(rule, q) == <<rule, q, Trigger(rule)>>

Keys == Rules \X Watched
KeyPrint(k) == Fingerprint(k[1], k[2])
Prints == {KeyPrint(k) : k \in Keys}
Run == [pc : {"idle", "rules", "queues", "each", "deliver"}, todo : SUBSET Keys,
        behind : SUBSET Watched, fired : Keys \cup {NoAlert}, sent : {"firing", "resolved"}]
NoRun == [pc |-> "idle", todo |-> {}, behind |-> {}, fired |-> NoAlert, sent |-> "firing"]

AlertsInit ==
  /\ runs = [x \in Checks \cup Handlers |-> NoRun]
  /\ cooldowns = <<>> /\ active = {} /\ recent = NoAlert
  /\ gap = [f \in Prints |-> Cooldown] /\ evicted = {}

Stays == UNCHANGED <<cooldowns, active, recent, gap, evicted>>

-----------------------------------------------------------------------------
(* setInterval and QueueEvents start a run, which reads the rules: those    *)
(* that are enabled and match.                                             *)
Start(x) ==
  /\ runs[x] = NoRun
  /\ runs' = [runs EXCEPT ![x].pc = "rules"]
  /\ Stays

ReadRules(x) ==
  /\ runs[x].pc = "rules"
  /\ \E ks \in SUBSET ((IF x \in Checks THEN HealthRules ELSE EventRules) \X Watched) :
       runs' = [runs EXCEPT ![x] =
         IF ks = {} THEN NoRun
         ELSE [@ EXCEPT !.todo = ks, !.pc = IF x \in Checks THEN "queues" ELSE "each"]]
  /\ Stays

(* getWatched: the queues that have a backlog, by the page.                  *)
SeeQueues(x) ==
  /\ runs[x].pc = "queues"
  /\ \E qs \in SUBSET Watched :
       runs' = [runs EXCEPT ![x].pc = "each", ![x].behind = qs]
  /\ Stays

(* The store, the queues or a delivery rejects: the run ends where it is.    *)
Reject(x) ==
  /\ runs[x].pc \in {"rules", "queues", "deliver"}
  /\ runs' = [runs EXCEPT ![x] = NoRun]
  /\ Stays

-----------------------------------------------------------------------------
(* fireRule, from the look at the cooldown to the event: no await between.  *)
Within(cs, f) == \E i \in DOMAIN cs : cs[i].print = f /\ cs[i].left > 0

(* Mutant: an entry that is there, elapsed, is not renewed.                 *)
CooledOnce(f) ==
  IF \E i \in DOMAIN cooldowns : cooldowns[i].print = f THEN cooldowns
  ELSE Append(cooldowns, [print |-> f, left |-> Cooldown])

(* Map.set keeps the place of a key that is there.                         *)
Cooled(f) ==
  LET entry == [print |-> f, left |-> Cooldown]
      at == {i \in DOMAIN cooldowns : cooldowns[i].print = f}
  IN  IF at = {} THEN Append(cooldowns, entry)
      ELSE [i \in DOMAIN cooldowns |-> IF i \in at THEN entry ELSE cooldowns[i]]

(* Mutant: only what has elapsed is swept.                                 *)
Swept(cs) == IF Len(cs) <= Cap THEN cs ELSE SelectSeq(cs, LAMBDA e : e.left > 0)

(* The n-th of a set of places.                                             *)
Nth(places, n) == CHOOSE i \in places : Cardinality({j \in places : j <= i}) = n

(* pruneCooldowns: over the cap, first what has elapsed, then the oldest.    *)
Pruned(cs) ==
  LET left == {i \in DOMAIN cs : cs[i].left > 0}
      stay == {i \in left : Cardinality({j \in left : j >= i}) <= Cap}
  IN  IF Len(cs) <= Cap THEN cs ELSE [n \in 1 .. Cardinality(stay) |-> cs[Nth(stay, n)]]

Push(f) ==
  LET kept == Pruned(Cooled(f))
  IN  /\ cooldowns' = kept
      /\ gap' = [gap EXCEPT ![f] = 0]
      /\ evicted' = (evicted \ {f}) \cup {g \in Prints : Within(Cooled(f), g) /\ ~Within(kept, g)}
      /\ recent' = f

(* One rule and queue: fire and deliver, resolve, or nothing.               *)
Evaluate(x, k) ==
  LET f == KeyPrint(k)
      health == x \in Checks
      firing == health => k[2] \in runs[x].behind
      existing == health /\ HealthKey(k[1], k[2]) \in active
      rest == [runs[x] EXCEPT !.todo = @ \ {k}]
      Send(what) == [rest EXCEPT !.pc = "deliver", !.fired = k, !.sent = what]
  IN  /\ runs[x].pc = "each" /\ k \in runs[x].todo
      /\ IF firing /\ ~existing /\ ~Within(cooldowns, f)
           THEN /\ Push(f) /\ UNCHANGED active
                /\ runs' = [runs EXCEPT ![x] = Send("firing")]
         ELSE IF ~firing /\ existing
           THEN /\ recent' = f
                /\ runs' = [runs EXCEPT ![x] = Send("resolved")]
                /\ UNCHANGED <<cooldowns, active, gap, evicted>>
         ELSE /\ runs' = [runs EXCEPT ![x] = rest]
              /\ active' = IF health /\ firing /\ recent = HealthKey(k[1], k[2])
                             THEN active \cup {HealthKey(k[1], k[2])} ELSE active
              /\ UNCHANGED <<cooldowns, recent, gap, evicted>>

(* deliver has reached the contact points: a check tracks what it fired if   *)
(* that is the newest event, and forgets what it resolved.                  *)
Delivered(x) ==
  LET k == runs[x].fired
      key == HealthKey(k[1], k[2])
  IN  /\ runs[x].pc = "deliver"
      /\ runs' = [runs EXCEPT ![x].pc = "each", ![x].fired = NoAlert]
      /\ active' = IF x \notin Checks THEN active
                   ELSE IF runs[x].sent = "resolved" THEN active \ {key}
                   ELSE IF recent = key THEN active \cup {key}
                   ELSE active
      /\ UNCHANGED <<cooldowns, recent, gap, evicted>>

End(x) ==
  /\ runs[x].pc = "each" /\ runs[x].todo = {}
  /\ runs' = [runs EXCEPT ![x] = NoRun]
  /\ Stays

Tick ==
  /\ cooldowns' = [i \in DOMAIN cooldowns |->
       [cooldowns[i] EXCEPT !.left = IF @ = 0 THEN 0 ELSE @ - 1]]
  /\ gap' = [f \in Prints |-> IF gap[f] < Cooldown THEN gap[f] + 1 ELSE Cooldown]
  /\ evicted' = {f \in evicted : gap'[f] < Cooldown}
  /\ UNCHANGED <<runs, active, recent>>

-----------------------------------------------------------------------------
(* Properties.                                                             *)
AlertsTypeOK ==
  /\ runs \in [Checks \cup Handlers -> Run]
  /\ cooldowns \in Seq([print : Prints, left : 0 .. Cooldown])
  /\ active \subseteq {HealthKey(k[1], k[2]) : k \in Keys}
  /\ recent \in Prints \cup {NoAlert}
  /\ gap \in [Prints -> 0 .. Cooldown] /\ evicted \subseteq Prints

(* The map stays under its cap, with one entry for a fingerprint, and what  *)
(* it knows of one that is not evicted is when it last fired.               *)
CooldownsTrue ==
  /\ AlertsTypeOK
  /\ Len(cooldowns) <= Cap
  /\ \A i, j \in DOMAIN cooldowns : cooldowns[i].print = cooldowns[j].print => i = j
  /\ \A f \in Prints \ evicted : \A i \in DOMAIN cooldowns :
       cooldowns[i].print = f => cooldowns[i].left + gap[f] >= Cooldown

(* However checks and handlers overlap, a fingerprint fires once in its     *)
(* cooldown, unless its window was evicted from a map over its cap.         *)
Spaced ==
  [][\A x \in DOMAIN runs :
       runs[x].pc = "each" /\ runs'[x].pc = "deliver" /\ runs'[x].sent = "firing" =>
         LET f == KeyPrint(runs'[x].fired)
         IN  gap[f] >= Cooldown \/ f \in evicted]_alertVars

(* "fireRule stores in recentEvents; track active for resolve": a check     *)
(* that has fired an alert tracks it.                                      *)
Tracked ==
  [][\A x \in Checks :
       runs[x].pc = "deliver" /\ runs[x].sent = "firing" /\ runs'[x].pc = "each" =>
         HealthKey(runs[x].fired[1], runs[x].fired[2]) \in active']_alertVars
=============================================================================
