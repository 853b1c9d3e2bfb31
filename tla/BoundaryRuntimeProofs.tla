------------------------ MODULE BoundaryRuntimeProofs ------------------------
(***************************************************************************)
(* Timers fire in turn and in time, for every number of nodes, boundary    *)
(* events, signals, crashes and elections and every size of a projection   *)
(* batch: BoundaryRuntime's TimersFireInTurn.                              *)
(*                                                                         *)
(* A record may be one that a snapshot brought while its node was at work  *)
(* on an earlier one, so the claim in hand and the record it is settled on *)
(* need not belong to the same arming.  The invariant therefore says of    *)
(* each by itself that its time has come and that the generations before   *)
(* its own have fired.                                                     *)
(*                                                                         *)
(* o, f and t are the outbox, the firings and the time.                    *)
(***************************************************************************)
EXTENDS BoundaryRuntime, FiniteSetTheorems, TLAPS

(* The event at cursor a arms b. *)
Arming(o, b, a) ==
    /\ a \in 1..Len(o)
    /\ o[a].kind = "armed" /\ o[a].boundary = b /\ o[a].due \in 0..MaxTime

(* When generation g of that arming is due. *)
DueTime(o, a, g) == Capped(o[a].due + g * Delay)

(* Every generation of timer b before g has fired. *)
Preceded(o, f, b, g) ==
    \A h \in 0..g - 1 : \E a \in 1..Len(o) :
        <<a, h>> \in DOMAIN f /\ f[<<a, h>>].boundary = b

Arms    == UNION {{Armed(b, due) : due \in 0..MaxTime} : b \in Boundary}
Disarms == {Disarmed(a) : a \in Activity}
Event   == Arms \cup Disarms

Record == [arm : Nat, due : Nat, left : Nat, gen : Nat, attempts : Nat, avail : Nat,
           lease : Nat, version : Nat, held : BOOLEAN, dead : BOOLEAN]

(* The record r of boundary event b. *)
Right(o, f, t, b, r) ==
    /\ r \in Record
    /\ Arming(o, b, r.arm)
    /\ r.due = DueTime(o, r.arm, r.gen)
    /\ r.left > 0 => r.gen + r.left = Firings[b]
    /\ b \in Interrupting => r.gen = 0
    /\ r.due <= t \/ r.due <= r.avail
    /\ r.held => r.due <= t /\ r.left > 0
    /\ Preceded(o, f, b, r.gen)

Shaped(db) ==
    db = [ckpt |-> db.ckpt, sub |-> db.sub, timers |-> db.timers, sig |-> db.sig, signals |-> db.signals]

StoreRight(o, f, t, db) ==
    /\ Shaped(db)
    /\ db.ckpt \in 0..Len(o)
    /\ DOMAIN db.sub \subseteq Boundary /\ DOMAIN db.sig \subseteq Signal
    /\ \A b \in DOMAIN db.sub : Right(o, f, t, b, db.sub[b])

(* Claims. *)
InTurn(o, f, b, id) ==
    /\ b \in Timer
    /\ id = <<id[1], id[2]>> /\ id[2] \in Nat
    /\ Arming(o, b, id[1])
    /\ id[2] < Firings[b]
    /\ b \in Interrupting => id[2] = 0
    /\ Preceded(o, f, b, id[2])

TimerRight(o, f, t, c) ==
    /\ c.kind = "timer" /\ c.boundary = c.key
    /\ InTurn(o, f, c.key, c.id)
    /\ DueTime(o, c.id[1], c.id[2]) <= t

SignalRight(c) ==
    /\ c.kind = "signal" /\ c.boundary \subseteq Boundary \ Timer
    /\ c.id[1] \in Signal

ClaimRight(o, f, t, c) == TimerRight(o, f, t, c) \/ SignalRight(c)

(* The claim has taken effect, now or before. *)
Answered(f, c) == c.kind = "timer" => c.id \in DOMAIN f /\ f[c.id].boundary = c.key

Settling(o, f, t, pc, cs) ==
    /\ cs = <<cs[1], cs[2], cs[3]>>
    /\ cs[2] \in {"timers", "signals"}
    /\ ClaimRight(o, f, t, cs[1])
    /\ \A c \in cs[3] : ClaimRight(o, f, t, c)
    /\ pc = "complete" => Answered(f, cs[1])

AtWork(o, f, t, l) ==
    /\ l = [pc |-> l.pc, claims |-> l.claims, at |-> l.at]
    /\ l.at \in 0..t
    /\ \/ l.pc = "claim_timers"
       \/ l.pc \in {"timers", "signals"} /\ \A c \in l.claims : ClaimRight(o, f, t, c)
       \/ l.pc \in {"complete", "fail"} /\ Settling(o, f, t, l.pc, l.claims)

LoopRight(o, f, t, l) == l = Idle \/ AtWork(o, f, t, l)

(* What has fired. *)
FiringRight(o, f, id) ==
    \/ id[1] \in Signal /\ f[id].boundary \in Boundary \ Timer
    \/ /\ InTurn(o, f, f[id].boundary, id)
       /\ f[id].at \in Nat /\ f[id].at >= DueTime(o, id[1], id[2])

World(o, f, t) ==
    /\ t \in Nat
    /\ o \in Seq(Event)
    /\ \A id \in DOMAIN f : FiringRight(o, f, id)

TInv ==
    /\ World(outbox, fired, now)
    /\ store = [n \in Node |-> store[n]] /\ loop = [n \in Node |-> loop[n]]
    /\ \A n \in Node : StoreRight(outbox, fired, now, store[n])
    /\ StoreRight(outbox, fired, now, snap)
    /\ \A n \in Node : LoopRight(outbox, fired, now, loop[n])

-----------------------------------------------------------------------------
(* As time passes, the outbox grows and commands take effect, what was right  *)
(* stays right.                                                               *)
Later(o, f, t, oo, ff, tt) ==
    /\ t \in Nat /\ tt \in Nat /\ t <= tt
    /\ Len(o) \in Nat /\ Len(oo) \in Nat /\ Len(o) <= Len(oo)
    /\ \A i \in 1..Len(o) : oo[i] = o[i]
    /\ \A id \in DOMAIN f : id \in DOMAIN ff /\ ff[id] = f[id]

LEMMA DueTimeIsNat ==
    ASSUME NEW o, NEW b, NEW a, Arming(o, b, a), NEW g \in Nat
    PROVE  DueTime(o, a, g) \in Nat
<1>1. Delay \in Nat /\ MaxTime \in Nat
  BY BoundaryConstants, Zenon
<1>2. g * Delay \in Nat
  BY <1>1, SMT
<1> QED  BY <1>1, <1>2, SMT DEF DueTime, Capped, Arming

LEMMA ArmingStays ==
    ASSUME NEW o, NEW f, NEW t, NEW oo, NEW ff, NEW tt, Later(o, f, t, oo, ff, tt),
           NEW b, NEW a, Arming(o, b, a)
    PROVE  Arming(oo, b, a) /\ \A g : DueTime(oo, a, g) = DueTime(o, a, g)
<1>1. a \in 1..Len(oo) /\ oo[a] = o[a]
  BY SMT DEF Arming, Later
<1> QED  BY <1>1, Zenon DEF Arming, DueTime

LEMMA PrecededStays ==
    ASSUME NEW o, NEW f, NEW t, NEW oo, NEW ff, NEW tt, Later(o, f, t, oo, ff, tt),
           NEW b, NEW g, Preceded(o, f, b, g)
    PROVE  Preceded(oo, ff, b, g)
<1> SUFFICES ASSUME NEW h \in 0..g - 1
             PROVE  \E a \in 1..Len(oo) : <<a, h>> \in DOMAIN ff /\ ff[<<a, h>>].boundary = b
  BY Zenon DEF Preceded
<1>1. PICK a \in 1..Len(o) : <<a, h>> \in DOMAIN f /\ f[<<a, h>>].boundary = b
  BY Zenon DEF Preceded
<1>2. a \in 1..Len(oo)
  BY SMT DEF Later
<1> QED  BY <1>1, <1>2, Zenon DEF Later

LEMMA RightStays ==
    ASSUME NEW o, NEW f, NEW t, NEW oo, NEW ff, NEW tt, Later(o, f, t, oo, ff, tt),
           NEW b, NEW r, Right(o, f, t, b, r)
    PROVE  Right(oo, ff, tt, b, r)
<1>1. Arming(oo, b, r.arm) /\ DueTime(oo, r.arm, r.gen) = DueTime(o, r.arm, r.gen)
  BY ArmingStays, SMT DEF Right
<1>2. Preceded(oo, ff, b, r.gen)
  BY PrecededStays, Zenon DEF Right
<1>3. (r.due <= tt \/ r.due <= r.avail) /\ (r.held => r.due <= tt /\ r.left > 0)
  BY SMT DEF Right, Record, Later
<1> QED  BY <1>1, <1>2, <1>3, Zenon DEF Right

LEMMA StoreStays ==
    ASSUME NEW o, NEW f, NEW t, NEW oo, NEW ff, NEW tt, Later(o, f, t, oo, ff, tt),
           NEW db, StoreRight(o, f, t, db)
    PROVE  StoreRight(oo, ff, tt, db)
<1>1. db.ckpt \in 0..Len(oo)
  BY SMT DEF Later, StoreRight
<1> QED  BY <1>1, RightStays, SMT DEF StoreRight

LEMMA InTurnStays ==
    ASSUME NEW o, NEW f, NEW t, NEW oo, NEW ff, NEW tt, Later(o, f, t, oo, ff, tt),
           NEW b, NEW id, InTurn(o, f, b, id)
    PROVE  InTurn(oo, ff, b, id) /\ DueTime(oo, id[1], id[2]) = DueTime(o, id[1], id[2])
  BY ArmingStays, PrecededStays, SMT DEF InTurn

LEMMA ClaimStays ==
    ASSUME NEW o, NEW f, NEW t, NEW oo, NEW ff, NEW tt, Later(o, f, t, oo, ff, tt),
           o \in Seq(Event), NEW c, ClaimRight(o, f, t, c)
    PROVE  ClaimRight(oo, ff, tt, c)
<1>1. CASE TimerRight(o, f, t, c)
  <2>1. InTurn(oo, ff, c.key, c.id) /\ DueTime(oo, c.id[1], c.id[2]) = DueTime(o, c.id[1], c.id[2])
    BY <1>1, InTurnStays, Zenon DEF TimerRight
  <2>2. DueTime(o, c.id[1], c.id[2]) \in Nat
    BY <1>1, DueTimeIsNat, Zenon DEF TimerRight, InTurn
  <2>3. DueTime(o, c.id[1], c.id[2]) <= tt
    BY <1>1, <2>2, SMT DEF TimerRight, Later
  <2> QED  BY <1>1, <2>1, <2>3, Zenon DEF TimerRight, ClaimRight
<1>2. CASE SignalRight(c)
  BY <1>2, Zenon DEF ClaimRight
<1> QED  BY <1>1, <1>2, Zenon DEF ClaimRight

LEMMA LoopStays ==
    ASSUME NEW o, NEW f, NEW t, NEW oo, NEW ff, NEW tt, Later(o, f, t, oo, ff, tt),
           o \in Seq(Event), NEW l, LoopRight(o, f, t, l)
    PROVE  LoopRight(oo, ff, tt, l)
<1> SUFFICES ASSUME AtWork(o, f, t, l) PROVE AtWork(oo, ff, tt, l)
  BY Zenon DEF LoopRight
<1>1. l.at \in 0..tt
  BY SMT DEF AtWork, Later
<1>2. CASE l.pc = "claim_timers"
  BY <1>1, <1>2, Zenon DEF AtWork
<1>3. CASE l.pc \in {"timers", "signals"} /\ \A c \in l.claims : ClaimRight(o, f, t, c)
  BY <1>1, <1>3, ClaimStays, Zenon DEF AtWork
<1>4. CASE l.pc \in {"complete", "fail"} /\ Settling(o, f, t, l.pc, l.claims)
  <2>1. ClaimRight(oo, ff, tt, l.claims[1]) /\ \A c \in l.claims[3] : ClaimRight(oo, ff, tt, c)
    BY <1>4, ClaimStays, SMT DEF Settling
  <2>2. l.pc = "complete" => Answered(ff, l.claims[1])
    BY <1>4, Zenon DEF Settling, Answered, Later
  <2> QED  BY <1>1, <1>4, <2>1, <2>2, Zenon DEF AtWork, Settling
<1> QED  BY <1>2, <1>3, <1>4, Zenon DEF AtWork

LEMMA FiringStays ==
    ASSUME NEW o, NEW f, NEW t, NEW oo, NEW ff, NEW tt, Later(o, f, t, oo, ff, tt),
           NEW id \in DOMAIN f, FiringRight(o, f, id)
    PROVE  FiringRight(oo, ff, id)
<1>1. ff[id] = f[id]
  BY Zenon DEF Later
<1>2. CASE InTurn(o, f, f[id].boundary, id)
             /\ f[id].at \in Nat /\ f[id].at >= DueTime(o, id[1], id[2])
  <2>1. InTurn(oo, ff, f[id].boundary, id) /\ DueTime(oo, id[1], id[2]) = DueTime(o, id[1], id[2])
    BY <1>2, InTurnStays, SMT
  <2> QED  BY <1>1, <1>2, <2>1, Zenon DEF FiringRight
<1>3. CASE id[1] \in Signal /\ f[id].boundary \in Boundary \ Timer
  BY <1>1, <1>3, Zenon DEF FiringRight
<1> QED  BY <1>2, <1>3, Zenon DEF FiringRight

-----------------------------------------------------------------------------
(* A step keeps the invariant if the new stores and loops are right. *)
LEMMA Moves ==
    ASSUME TInv, Later(outbox, fired, now, outbox', fired', now'), World(outbox', fired', now'),
           store' = [n \in Node |-> store'[n]], loop' = [n \in Node |-> loop'[n]],
           \A n \in Node : store'[n] = store[n] \/ StoreRight(outbox', fired', now', store'[n]),
           snap' = snap \/ StoreRight(outbox', fired', now', snap'),
           \A n \in Node : loop'[n] = loop[n] \/ LoopRight(outbox', fired', now', loop'[n])
    PROVE  TInv'
<1>1. StoreRight(outbox', fired', now', snap')
  <2>1. StoreRight(outbox', fired', now', snap)
    BY StoreStays, Zenon DEF TInv
  <2> QED  BY <2>1, Zenon
<1>2. ASSUME NEW n \in Node PROVE StoreRight(outbox', fired', now', store'[n])
  <2>1. StoreRight(outbox', fired', now', store[n])
    BY StoreStays, Zenon DEF TInv
  <2> QED  BY <2>1, Zenon
<1>3. ASSUME NEW n \in Node PROVE LoopRight(outbox', fired', now', loop'[n])
  <2>1. LoopRight(outbox', fired', now', loop[n])
    BY LoopStays, Zenon DEF TInv, World
  <2> QED  BY <2>1, Zenon
<1> QED  BY <1>1, <1>2, <1>3, Zenon DEF TInv

LEMMA SameWorld ==
    ASSUME NEW o, NEW f, NEW t, World(o, f, t)
    PROVE  Later(o, f, t, o, f, t)
<1>1. Len(o) \in Nat
  BY SMT DEF World
<1> QED  BY <1>1, SMT DEF World, Later

(* A step of the loop of one node that does not reach the engine. *)
LEMMA Locally ==
    ASSUME TInv, UNCHANGED <<outbox, fired, now, snap>>, NEW n \in Node, NEW db, NEW l,
           store' = [store EXCEPT ![n] = db], StoreRight(outbox, fired, now, db) \/ db = store[n],
           loop' = [loop EXCEPT ![n] = l], LoopRight(outbox, fired, now, l)
    PROVE  TInv'
<1>1. Later(outbox, fired, now, outbox', fired', now') /\ World(outbox', fired', now')
  BY SameWorld, Zenon DEF TInv
<1>2. store' = [m \in Node |-> store'[m]] /\ loop' = [m \in Node |-> loop'[m]]
  <2>1. store = [m \in Node |-> store[m]] /\ loop = [m \in Node |-> loop[m]]
    BY Zenon DEF TInv
  <2>2. store' = [m \in Node |-> store'[m]]
    BY <2>1, Zenon
  <2>3. loop' = [m \in Node |-> loop'[m]]
    BY <2>1, Zenon
  <2> QED  BY <2>2, <2>3, Zenon
<1>3. ASSUME NEW m \in Node
      PROVE  /\ store'[m] = store[m] \/ StoreRight(outbox', fired', now', store'[m])
             /\ loop'[m] = loop[m] \/ LoopRight(outbox', fired', now', loop'[m])
  <2>1. store'[m] = (IF m = n THEN db ELSE store[m]) /\ loop'[m] = (IF m = n THEN l ELSE loop[m])
    BY Zenon DEF TInv
  <2> QED  BY <2>1, Zenon
<1> QED  BY <1>1, <1>2, <1>3, Moves, Zenon

LEMMA InitRight == Init => TInv
<1> SUFFICES ASSUME Init PROVE TInv
  BY Zenon
<1>1. World(outbox, fired, now)
  <2>1. DOMAIN fired = {} /\ outbox \in Seq(Event)
    BY SMT DEF Init
  <2> QED  BY <2>1, Zenon DEF Init, World
<1>2. StoreRight(outbox, fired, now, EmptyStore)
  <2>1. DOMAIN EmptyStore.sub = {} /\ DOMAIN EmptyStore.sig = {} /\ EmptyStore.ckpt \in 0..Len(outbox)
    BY SMT DEF Init, EmptyStore
  <2>2. Shaped(EmptyStore)
    BY Zenon DEF EmptyStore, Shaped
  <2> QED  BY <2>1, <2>2, Zenon DEF StoreRight
<1> QED  BY <1>1, <1>2, Zenon DEF Init, TInv, LoopRight

-----------------------------------------------------------------------------
(* The engine's side: events are appended, time passes, commands take effect. *)
LEMMA Grows ==
    ASSUME NEW o, NEW f, NEW t, World(o, f, t), NEW e \in Seq(Event), NEW tt \in Nat, t <= tt
    PROVE  Later(o, f, t, o \o e, f, tt) /\ World(o \o e, f, tt)
<1>1. o \o e \in Seq(Event) /\ Len(o) \in Nat /\ Len(o \o e) \in Nat /\ Len(o) <= Len(o \o e)
  BY SMT DEF World
<1>2. \A i \in 1..Len(o) : (o \o e)[i] = o[i]
  BY SMT DEF World
<1>3. Later(o, f, t, o \o e, f, tt)
  BY <1>1, <1>2, Zenon DEF Later, World
<1>4. \A id \in DOMAIN f : FiringRight(o \o e, f, id)
  BY <1>3, FiringStays, Zenon DEF World
<1> QED  BY <1>1, <1>3, <1>4, Zenon DEF World

LEMMA Outside ==
    ASSUME TInv, Later(outbox, fired, now, outbox', fired', now'), World(outbox', fired', now'),
           UNCHANGED <<store, snap, loop>>
    PROVE  TInv'
  BY Moves, Zenon DEF TInv

LEMMA TickKeeps == ASSUME TInv, Tick PROVE TInv'
<1>1. now' \in Nat /\ now <= now'
  BY SMT DEF Tick, TInv, World
<1>2. Later(outbox, fired, now, outbox, fired, now') /\ World(outbox, fired, now')
  BY <1>1, SameWorld, Zenon DEF Later, World, TInv
<1> QED  BY <1>2, Outside, Zenon DEF Tick, engine

LEMMA Disarming ==
    ASSUME NEW o, NEW f, NEW t, World(o, f, t), NEW a \in Activity
    PROVE  Later(o, f, t, Append(o, Disarmed(a)), f, t) /\ World(Append(o, Disarmed(a)), f, t)
<1>1. Disarmed(a) \in Event
  <2>1. Disarmed(a) \in Disarms
    BY Zenon DEF Disarms
  <2> QED  BY <2>1, Zenon DEF Event
<1>2. o \in Seq(Event) /\ t \in Nat
  BY Zenon DEF World
<1> DEFINE e == <<Disarmed(a)>>
<1>3. e \in Seq(Event) /\ Append(o, Disarmed(a)) = o \o e /\ t <= t
  BY <1>1, <1>2, SMT
<1> HIDE DEF e
<1>4. Later(o, f, t, o \o e, f, t) /\ World(o \o e, f, t)
  BY <1>2, <1>3, Grows, Zenon
<1> QED  BY <1>3, <1>4, Zenon

LEMMA LeaveKeeps == ASSUME TInv, NEW a \in Activity, Leave(a) PROVE TInv'
<1>1. now' = now /\ fired' = fired
  BY Zenon DEF Leave
<1>2. outbox' = Append(outbox, Disarmed(a))
  BY Zenon DEF Leave
<1>3. Later(outbox, fired, now, outbox', fired', now') /\ World(outbox', fired', now')
  BY <1>1, <1>2, Disarming, Zenon DEF TInv
<1> QED  BY <1>3, Outside, Zenon DEF Leave

LEMMA Enumerates ==
    ASSUME NEW S \in SUBSET Boundary, NEW bs \in Bijection(1..Cardinality(S), S)
    PROVE  Cardinality(S) \in Nat /\ bs \in [1..Cardinality(S) -> Boundary]
<1>1. IsFiniteSet(S)
  BY BoundaryConstants, FS_Subset, Zenon
<1>2. Cardinality(S) \in Nat
  BY <1>1, FS_CardinalityType, Zenon
<1>3. bs \in [1..Cardinality(S) -> S]
  BY Zenon DEF Bijection, Surjection
<1>4. S \subseteq Boundary
  BY Zenon
<1> QED  BY <1>2, <1>3, <1>4, Zenon

LEMMA EnterKeeps == ASSUME TInv, NEW a \in Activity, Enter(a) PROVE TInv'
<1> DEFINE S == {b \in Boundary : Attached[b] = a}
<1>1. PICK bs \in Bijection(1..Cardinality(S), S) :
         outbox' = outbox \o [i \in DOMAIN bs |-> Armed(bs[i], Capped(now + Delay))]
  BY Zenon DEF Enter
<1> DEFINE e == [i \in DOMAIN bs |-> Armed(bs[i], Capped(now + Delay))]
<1>2. S \in SUBSET Boundary
  BY Zenon
<1> HIDE DEF S
<1>3. PICK k \in Nat : bs \in [1..k -> Boundary]
  BY <1>2, Enumerates, Zenon
<1>4. Capped(now + Delay) \in 0..MaxTime
  BY BoundaryConstants, SMT DEF Capped, TInv, World
<1>5. e \in Seq(Event)
  <2>1. \A i \in 1..k : bs[i] \in Boundary
    BY <1>3, Zenon
  <2>2. ASSUME NEW i \in 1..k PROVE Armed(bs[i], Capped(now + Delay)) \in Event
    <3>1. Armed(bs[i], Capped(now + Delay)) \in {Armed(bs[i], due) : due \in 0..MaxTime}
      BY <1>4, Zenon
    <3>2. {Armed(bs[i], due) : due \in 0..MaxTime} \in {{Armed(b, due) : due \in 0..MaxTime} : b \in Boundary}
      BY <2>1, Zenon
    <3> QED  BY <3>1, <3>2, Zenon DEF Event, Arms
  <2>3. DOMAIN bs = 1..k
    BY <1>3, Zenon
  <2> QED  BY <2>2, <2>3, SMT
<1>6. outbox' = outbox \o e /\ now' = now /\ fired' = fired
  BY <1>1, Zenon DEF Enter
<1>7. now \in Nat /\ now <= now
  BY SMT DEF TInv, World
<1> HIDE DEF e
<1>8. Later(outbox, fired, now, outbox', fired', now') /\ World(outbox', fired', now')
  BY <1>5, <1>6, <1>7, Grows, Zenon DEF TInv
<1> QED  BY <1>8, Outside, Zenon DEF Enter

(* A claim that is answered, now or before, took effect on its own timer. *)
LEMMA KnownIsAnswered ==
    ASSUME NEW o, NEW f, NEW t, World(o, f, t), NEW c, ClaimRight(o, f, t, c), c.id \in DOMAIN f
    PROVE  Answered(f, c)
<1> SUFFICES ASSUME c.kind = "timer" PROVE f[c.id].boundary = c.key
  BY Zenon DEF Answered
<1>1. TimerRight(o, f, t, c)
  BY Zenon DEF ClaimRight, SignalRight
<1>2. Arming(o, c.key, c.id[1]) /\ c.id[1] \in Nat
  BY <1>1, SMT DEF TimerRight, InTurn, Arming, World
<1>3. c.id[1] \notin Signal
  BY <1>2, BoundaryConstants, Zenon
<1>4. Arming(o, f[c.id].boundary, c.id[1])
  BY <1>3, Zenon DEF World, FiringRight, InTurn
<1> QED  BY <1>2, <1>4, Zenon DEF Arming

(* The command takes effect. *)
LEMMA TakesEffect ==
    ASSUME NEW o, NEW f, NEW t, World(o, f, t), NEW c, ClaimRight(o, f, t, c), c.id \notin DOMAIN f,
           NEW b \in IF c.kind = "timer" THEN {c.boundary} ELSE c.boundary, NEW k,
           NEW ff, ff = With(f, c.id, [boundary |-> b, arm |-> k, at |-> t])
    PROVE  Later(o, f, t, o, ff, t) /\ World(o, ff, t) /\ Answered(ff, c) /\ b \in Boundary
<1>1. /\ DOMAIN ff = DOMAIN f \cup {c.id}
      /\ ff[c.id] = [boundary |-> b, arm |-> k, at |-> t]
      /\ \A id \in DOMAIN f : ff[id] = f[id]
  BY Zenon DEF With
<1>2. ff[c.id].boundary = b /\ ff[c.id].at = t
  BY <1>1, SMT
<1>3. Later(o, f, t, o, ff, t)
  BY <1>1, SameWorld, Zenon DEF Later
<1>4. FiringRight(o, ff, c.id) /\ Answered(ff, c) /\ b \in Boundary
  <2>1. CASE TimerRight(o, f, t, c)
    <3>1. b = c.key
      BY <2>1, Zenon DEF TimerRight
    <3>2. InTurn(o, ff, c.key, c.id)
      BY <1>3, <2>1, InTurnStays, SMT DEF TimerRight
    <3>3. t \in Nat /\ t >= DueTime(o, c.id[1], c.id[2])
      <4>1. DueTime(o, c.id[1], c.id[2]) \in Nat
        BY <2>1, DueTimeIsNat, Zenon DEF TimerRight, InTurn
      <4> QED  BY <2>1, <4>1, Zenon DEF TimerRight, World
    <3>4. b \in Boundary
      BY <3>1, <3>2, Zenon DEF InTurn, Timer
    <3> QED  BY <1>1, <1>2, <3>1, <3>2, <3>3, <3>4, Zenon DEF FiringRight, Answered
  <2>2. CASE SignalRight(c)
    <3>1. c.kind # "timer" /\ b \in Boundary \ Timer
      BY <2>2, Zenon DEF SignalRight
    <3> QED  BY <1>2, <2>2, <3>1, Zenon DEF SignalRight, FiringRight, Answered
  <2> QED  BY <2>1, <2>2, Zenon DEF ClaimRight
<1>5. \A id \in DOMAIN f : FiringRight(o, ff, id)
  BY <1>3, FiringStays, Zenon DEF World
<1>6. World(o, ff, t)
  BY <1>1, <1>4, <1>5, Zenon DEF World
<1> QED  BY <1>3, <1>4, <1>6, Zenon

LEMMA LaterStill ==
    ASSUME NEW o, NEW f, NEW t, NEW oo, NEW ff, NEW tt, NEW o3, NEW f3, NEW t3,
           Later(o, f, t, oo, ff, tt), Later(oo, ff, tt, o3, f3, t3)
    PROVE  Later(o, f, t, o3, f3, t3)
  BY SMT DEF Later

LEMMA TriggerMoves ==
    ASSUME TInv, NEW n, NEW c, ClaimRight(outbox, fired, now, c), NEW ok \in BOOLEAN,
           Trigger(n, c, ok), now' = now
    PROVE  /\ Later(outbox, fired, now, outbox', fired', now') /\ World(outbox', fired', now')
           /\ ok => Answered(fired', c)
<1>1. World(outbox, fired, now)
  BY Zenon DEF TInv
<1>2. CASE UNCHANGED engine /\ (ok => c.id \in DOMAIN fired)
  <2>1. outbox' = outbox /\ fired' = fired
    BY <1>2, Zenon DEF engine
  <2>2. Later(outbox, fired, now, outbox, fired, now)
    BY <1>1, SameWorld, Zenon
  <2>3. ok => Answered(fired, c)
    BY <1>1, <1>2, KnownIsAnswered, Zenon
  <2> QED  BY <1>1, <2>1, <2>2, <2>3, Zenon
<1>3. ASSUME c.id \notin DOMAIN fired,
             NEW b \in IF c.kind = "timer" THEN {c.boundary} ELSE c.boundary, Effect(b, c.id)
      PROVE  /\ Later(outbox, fired, now, outbox', fired', now') /\ World(outbox', fired', now')
             /\ Answered(fired', c)
  <2>1. fired' = With(fired, c.id, [boundary |-> b, arm |-> Current(b), at |-> now])
    BY <1>3, Zenon DEF Effect
  <2>2. /\ Later(outbox, fired, now, outbox, fired', now) /\ World(outbox, fired', now)
        /\ Answered(fired', c) /\ b \in Boundary
    BY <1>1, <1>3, <2>1, TakesEffect, Zenon
  <2>3. CASE b \in Interrupting
    <3>1. outbox' = Append(outbox, Disarmed(Attached[b])) /\ Attached[b] \in Activity
      BY <1>3, <2>2, <2>3, Zenon DEF Effect, Activity
    <3>2. Later(outbox, fired', now, outbox', fired', now) /\ World(outbox', fired', now)
      BY <2>2, <3>1, Disarming, Zenon
    <3> QED  BY <2>2, <3>2, LaterStill, Zenon
  <2>4. CASE b \notin Interrupting
    BY <1>3, <2>2, <2>4, Zenon DEF Effect
  <2> QED  BY <2>3, <2>4, Zenon
<1> QED  BY <1>2, <1>3, Zenon DEF Trigger

LEMMA DispatchKeeps ==
    ASSUME TInv, NEW n \in Node, NEW c, Dispatch(n, c)
    PROVE  TInv'
<1>1. loop[n].pc \in {"timers", "signals"} /\ c \in loop[n].claims
  BY Zenon DEF Dispatch
<1>2. LoopRight(outbox, fired, now, loop[n]) /\ loop[n] # Idle
  BY <1>1, SMT DEF TInv, Idle
<1>3. AtWork(outbox, fired, now, loop[n])
  BY <1>2, Zenon DEF LoopRight
<1>4. \A d \in loop[n].claims : ClaimRight(outbox, fired, now, d)
  BY <1>1, <1>3, Zenon DEF AtWork
<1>5. PICK ok \in BOOLEAN :
         /\ Trigger(n, c, ok)
         /\ Proceed(n, IF ok THEN "complete" ELSE "fail", <<c, loop[n].pc, loop[n].claims \ {c}>>)
  BY Zenon DEF Dispatch
<1> DEFINE pc == IF ok THEN "complete" ELSE "fail"
           cs == <<c, loop[n].pc, loop[n].claims \ {c}>>
           l  == [pc |-> pc, claims |-> cs, at |-> loop[n].at]
<1>6. now' = now /\ store' = store /\ snap' = snap
  BY Zenon DEF Dispatch
<1>7. /\ Later(outbox, fired, now, outbox', fired', now') /\ World(outbox', fired', now')
      /\ ok => Answered(fired', c)
  BY <1>1, <1>4, <1>5, <1>6, TriggerMoves, Zenon
<1>8. loop' = [loop EXCEPT ![n] = l]
  BY <1>5, Zenon DEF Proceed, Become
<1>9. LoopRight(outbox', fired', now', l)
  <2>1. \A d \in loop[n].claims : ClaimRight(outbox', fired', now', d)
    BY <1>4, <1>7, ClaimStays, Zenon DEF TInv, World
  <2>2. loop[n].at \in 0..now'
    BY <1>3, <1>6, Zenon DEF AtWork
  <2>3. Settling(outbox', fired', now', pc, cs)
    BY <1>1, <1>7, <2>1, Zenon DEF Settling
  <2>4. l.pc = pc /\ l.claims = cs /\ l.at = loop[n].at
    BY Zenon
  <2>5. pc \in {"complete", "fail"}
    BY Zenon
  <2> HIDE DEF pc, cs
  <2>6. l = [pc |-> l.pc, claims |-> l.claims, at |-> l.at]
    BY Zenon
  <2> HIDE DEF l
  <2> QED  BY <2>2, <2>3, <2>4, <2>5, <2>6, Zenon DEF LoopRight, AtWork
<1> HIDE DEF l
<1>10. loop' = [m \in Node |-> loop'[m]] /\ \A m \in Node : loop'[m] = loop[m] \/ loop'[m] = l
  <2>1. loop = [m \in Node |-> loop[m]]
    BY Zenon DEF TInv
  <2> QED  BY <1>8, <2>1, Zenon
<1>11. store' = [m \in Node |-> store'[m]]
  BY <1>6, Zenon DEF TInv
<1> QED  BY <1>6, <1>7, <1>9, <1>10, <1>11, Moves, Zenon

-----------------------------------------------------------------------------
(* The node's side.  Its loop ends a turn or goes on to another step. *)
LEMMA IdleIsRight == ASSUME NEW o, NEW f, NEW t PROVE LoopRight(o, f, t, Idle)
  BY Zenon DEF LoopRight

LEMMA AtIsRight ==
    ASSUME TInv, NEW pc \in {"claim_timers", "timers", "signals"}, NEW cs,
           \A c \in cs : ClaimRight(outbox, fired, now, c)
    PROVE  LoopRight(outbox, fired, now, At(pc, cs))
<1>1. At(pc, cs) = [pc |-> pc, claims |-> cs, at |-> now] /\ now \in 0..now
  BY SMT DEF At, TInv, World
<1> QED  BY <1>1, SMT DEF LoopRight, AtWork

LEMMA AbortKeeps ==
    ASSUME TInv, NEW n \in Node, Abort(n), UNCHANGED <<now, engine, snap>>
    PROVE  TInv'
<1>1. store' = [store EXCEPT ![n] = store[n]]
  BY Zenon DEF Abort, TInv
<1> QED  BY <1>1, Locally, IdleIsRight, Zenon DEF Abort, Become, engine

(* The parts of a node's store altered. *)
LEMMA CkptAltered ==
    ASSUME NEW o, NEW f, NEW t, NEW db, StoreRight(o, f, t, db), NEW k, k \in 0..Len(o)
    PROVE  StoreRight(o, f, t, [db EXCEPT !.ckpt = k])
<1> DEFINE dd == [ckpt |-> k, sub |-> db.sub, timers |-> db.timers, sig |-> db.sig, signals |-> db.signals]
<1>1. [db EXCEPT !.ckpt = k] = dd
  BY SMT DEF StoreRight, Shaped
<1>2. Shaped(dd) /\ dd.sig = db.sig /\ dd.ckpt = k /\ dd.sub = db.sub
  BY Zenon DEF Shaped
<1> HIDE DEF dd
<1> QED  BY <1>1, <1>2, Zenon DEF StoreRight

LEMMA SubAltered ==
    ASSUME NEW o, NEW f, NEW t, NEW db, StoreRight(o, f, t, db), NEW subs,
           DOMAIN subs \subseteq Boundary, \A b \in DOMAIN subs : Right(o, f, t, b, subs[b])
    PROVE  StoreRight(o, f, t, [db EXCEPT !.sub = subs])
<1> DEFINE dd == [ckpt |-> db.ckpt, sub |-> subs, timers |-> db.timers, sig |-> db.sig, signals |-> db.signals]
<1>1. [db EXCEPT !.sub = subs] = dd
  BY SMT DEF StoreRight, Shaped
<1>2. Shaped(dd) /\ dd.sig = db.sig /\ dd.ckpt = db.ckpt /\ dd.sub = subs
  BY Zenon DEF Shaped
<1> HIDE DEF dd
<1> QED  BY <1>1, <1>2, Zenon DEF StoreRight

LEMMA TimersAltered ==
    ASSUME NEW o, NEW f, NEW t, NEW db, StoreRight(o, f, t, db), NEW x
    PROVE  StoreRight(o, f, t, [db EXCEPT !.timers = x])
<1> DEFINE dd == [ckpt |-> db.ckpt, sub |-> db.sub, timers |-> x, sig |-> db.sig, signals |-> db.signals]
<1>1. [db EXCEPT !.timers = x] = dd
  BY SMT DEF StoreRight, Shaped
<1>2. Shaped(dd) /\ dd.sig = db.sig /\ dd.ckpt = db.ckpt /\ dd.sub = db.sub
  BY Zenon DEF Shaped
<1> HIDE DEF dd
<1> QED  BY <1>1, <1>2, Zenon DEF StoreRight

LEMMA SigAltered ==
    ASSUME NEW o, NEW f, NEW t, NEW db, StoreRight(o, f, t, db), NEW x, DOMAIN x \subseteq Signal
    PROVE  StoreRight(o, f, t, [db EXCEPT !.sig = x])
<1> DEFINE dd == [ckpt |-> db.ckpt, sub |-> db.sub, timers |-> db.timers, sig |-> x, signals |-> db.signals]
<1>1. [db EXCEPT !.sig = x] = dd
  BY SMT DEF StoreRight, Shaped
<1>2. Shaped(dd) /\ dd.sig = x /\ dd.ckpt = db.ckpt /\ dd.sub = db.sub
  BY Zenon DEF Shaped
<1> HIDE DEF dd
<1> QED  BY <1>1, <1>2, Zenon DEF StoreRight

LEMMA SignalsAltered ==
    ASSUME NEW o, NEW f, NEW t, NEW db, StoreRight(o, f, t, db), NEW x
    PROVE  StoreRight(o, f, t, [db EXCEPT !.signals = x])
<1> DEFINE dd == [ckpt |-> db.ckpt, sub |-> db.sub, timers |-> db.timers, sig |-> db.sig, signals |-> x]
<1>1. [db EXCEPT !.signals = x] = dd
  BY SMT DEF StoreRight, Shaped
<1>2. Shaped(dd) /\ dd.sig = db.sig /\ dd.ckpt = db.ckpt /\ dd.sub = db.sub
  BY Zenon DEF Shaped
<1> HIDE DEF dd
<1> QED  BY <1>1, <1>2, Zenon DEF StoreRight

LEMMA EnqueueSignalKeeps ==
    ASSUME TInv, NEW n \in Node, NEW s \in Signal, EnqueueSignal(n, s)
    PROVE  TInv'
<1> DEFINE r  == [attempts |-> 0, avail |-> 0, lease |-> 0, version |-> 0,
                  held |-> FALSE, dead |-> FALSE, done |-> FALSE]
           x  == With(store[n].sig, s, r)
           y  == store[n].signals \cup {<<0, s>>}
           db == [[store[n] EXCEPT !.sig = x] EXCEPT !.signals = y]
<1>1. StoreRight(outbox, fired, now, store[n])
  BY Zenon DEF TInv
<1>2. StoreRight(outbox, fired, now, [store[n] EXCEPT !.sig = x])
  <2>1. DOMAIN x \subseteq Signal
    BY <1>1, Zenon DEF With, StoreRight
  <2> HIDE DEF x
  <2> QED  BY <1>1, <2>1, SigAltered, Zenon
<1>3. StoreRight(outbox, fired, now, db)
  BY <1>2, SignalsAltered, Zenon
<1>4. store' = [store EXCEPT ![n] = db]
  BY Zenon DEF EnqueueSignal
<1>5. loop' = [loop EXCEPT ![n] = loop[n]] /\ LoopRight(outbox, fired, now, loop[n])
  BY Zenon DEF EnqueueSignal, TInv
<1> HIDE DEF db
<1> QED  BY <1>3, <1>4, <1>5, Locally, Zenon DEF EnqueueSignal, engine


LEMMA SignalClaimIsRight ==
    ASSUME NEW db, NEW s \in Signal, NEW r, NEW o, NEW f, NEW t
    PROVE  ClaimRight(o, f, t, SignalClaim(db, s, r))
<1> DEFINE c == SignalClaim(db, s, r)
<1>1. c.kind = "signal" /\ c.boundary = Matching(db, s) /\ c.id = <<s, Matching(db, s)>>
  BY Zenon DEF SignalClaim
<1>2. Matching(db, s) \subseteq Boundary \ Timer
  BY BoundaryConstants, SMT DEF Matching, Timer
<1> HIDE DEF c
<1>3. c.id[1] = s
  BY <1>1, SMT
<1> QED  BY <1>1, <1>2, <1>3, Zenon DEF ClaimRight, SignalRight, c

LEMMA ClaimSignalsKeeps ==
    ASSUME TInv, NEW n \in Node, ClaimSignals(n)
    PROVE  TInv'
<1> DEFINE db == store[n]
           S  == {s \in DOMAIN db.sig : <<db.sig[s].avail, s>> \in db.signals
                                        /\ db.sig[s].avail <= now
                                        /\ ~db.sig[s].done /\ Claimable(db.sig[s])}
           x  == ClaimAll(db.sig, S)
           cs == {SignalClaim(db, s, x[s]) : s \in S}
<1>1. UNCHANGED <<now, engine, snap>>
  BY Zenon DEF ClaimSignals
<1>2. CASE Abort(n)
  BY <1>1, <1>2, AbortKeeps, Zenon
<1>3. CASE store' = [store EXCEPT ![n].sig = x] /\ Become(n, At("signals", cs))
  <2>1. StoreRight(outbox, fired, now, store[n])
    BY Zenon DEF TInv
  <2>2. DOMAIN x = DOMAIN store[n].sig /\ DOMAIN x \subseteq Signal
    BY <2>1, Zenon DEF ClaimAll, StoreRight
  <2>3. \A c \in cs : ClaimRight(outbox, fired, now, c)
    BY <2>2, SignalClaimIsRight, Zenon
  <2>4. store' = [store EXCEPT ![n] = [store[n] EXCEPT !.sig = x]]
    BY <1>3, Zenon
  <2>5. loop' = [loop EXCEPT ![n] = At("signals", cs)]
    BY <1>3, Zenon DEF Become
  <2> HIDE DEF x, cs
  <2>6. StoreRight(outbox, fired, now, [store[n] EXCEPT !.sig = x])
    BY <2>1, <2>2, SigAltered, Zenon
  <2>7. LoopRight(outbox, fired, now, At("signals", cs))
    BY <2>3, AtIsRight, Zenon
  <2> QED  BY <1>1, <2>4, <2>5, <2>6, <2>7, Locally, Zenon DEF engine
<1> QED  BY <1>2, <1>3, Zenon DEF ClaimSignals

LEMMA EndTurnKeeps ==
    ASSUME TInv, NEW n \in Node, EndTurn(n)
    PROVE  TInv'
<1>1. Abort(n) /\ UNCHANGED <<now, engine, snap>>
  BY Zenon DEF EndTurn, Abort
<1> QED  BY <1>1, AbortKeeps, Zenon

(* claim_due_timers: what the index calls due is due, since an entry that the *)
(* record does not bear out fails the claim.                                  *)
LEMMA DueIsDue ==
    ASSUME TInv, NEW n \in Node, ~BadIndex(store[n]), NEW b \in Due(store[n])
    PROVE  b \in DOMAIN store[n].sub /\ store[n].sub[b].avail <= now /\ store[n].sub[b].left # 0
<1>1. PICK t \in 0..now : <<t, b>> \in store[n].timers
  BY Zenon DEF Due
<1>2. <<t, b>>[1] = t /\ <<t, b>>[2] = b /\ t <= now
  BY SMT DEF TInv, World
<1>3. b \in DOMAIN store[n].sub
  BY Zenon DEF Due
<1> QED  BY <1>1, <1>2, <1>3, Zenon DEF BadIndex

LEMMA RecordAltered ==
    ASSUME NEW r \in Record
    PROVE  /\ \A v \in Nat : /\ [r EXCEPT !.due = v] \in Record
                             /\ [r EXCEPT !.left = v] \in Record
                             /\ [r EXCEPT !.gen = v] \in Record
                             /\ [r EXCEPT !.attempts = v] \in Record
                             /\ [r EXCEPT !.avail = v] \in Record
                             /\ [r EXCEPT !.lease = v] \in Record
                             /\ [r EXCEPT !.version = v] \in Record
           /\ \A v \in BOOLEAN : /\ [r EXCEPT !.held = v] \in Record
                                 /\ [r EXCEPT !.dead = v] \in Record
<1>1. \A v \in Nat : [r EXCEPT !.due = v] \in Record
  BY Zenon DEF Record
<1>2. \A v \in Nat : [r EXCEPT !.left = v] \in Record
  BY Zenon DEF Record
<1>3. \A v \in Nat : [r EXCEPT !.gen = v] \in Record
  BY Zenon DEF Record
<1>4. \A v \in Nat : [r EXCEPT !.attempts = v] \in Record
  BY Zenon DEF Record
<1>5. \A v \in Nat : [r EXCEPT !.avail = v] \in Record
  BY Zenon DEF Record
<1>6. \A v \in Nat : [r EXCEPT !.lease = v] \in Record
  BY Zenon DEF Record
<1>7. \A v \in Nat : [r EXCEPT !.version = v] \in Record
  BY Zenon DEF Record
<1>8. \A v \in BOOLEAN : [r EXCEPT !.held = v] \in Record
  BY Zenon DEF Record
<1>9. \A v \in BOOLEAN : [r EXCEPT !.dead = v] \in Record
  BY Zenon DEF Record
<1> QED  BY <1>1, <1>2, <1>3, <1>4, <1>5, <1>6, <1>7, <1>8, <1>9, Zenon

LEMMA ClaimIsRight ==
    ASSUME TInv, NEW b \in Boundary, NEW r, Right(outbox, fired, now, b, r),
           r.avail <= now, r.left # 0
    PROVE  /\ Right(outbox, fired, now, b, Claim(r))
           /\ ClaimRight(outbox, fired, now, TimerClaim(b, Claim(r)))
<1> DEFINE q == Claim(r)
           c == TimerClaim(b, q)
<1>1. r \in Record /\ r.due <= now /\ r.left > 0
  BY SMT DEF Right, Record, TInv, World
<1>2. Capped(now + LeaseTime) \in Nat
  BY BoundaryConstants, SMT DEF Capped, TInv, World
<1>10. q.arm = r.arm /\ q.due = r.due /\ q.left = r.left /\ q.gen = r.gen /\ q.avail = r.avail
  BY <1>1, Zenon DEF Claim, Record
<1>3. q \in Record
  <2> DEFINE r1 == [r EXCEPT !.attempts = r.attempts + 1]
             r2 == [r1 EXCEPT !.version = r1.version + 1]
             r3 == [r2 EXCEPT !.lease = Capped(now + LeaseTime)]
  <2>1. q = [r3 EXCEPT !.held = TRUE]
    BY Zenon DEF Claim
  <2>2. r1 \in Record
    <3>1. r.attempts + 1 \in Nat
      BY <1>1, SMT DEF Record
    <3> QED  BY <1>1, <3>1, RecordAltered, Zenon
  <2> HIDE DEF r1
  <2>3. r2 \in Record
    <3>1. r1.version + 1 \in Nat
      BY <2>2, SMT DEF Record
    <3> QED  BY <2>2, <3>1, RecordAltered, Zenon
  <2> HIDE DEF r2
  <2>4. r3 \in Record
    BY <1>2, <2>3, RecordAltered, Zenon
  <2> HIDE DEF r3, q
  <2> QED  BY <2>1, <2>4, RecordAltered, Zenon
<1> HIDE DEF q
<1>4. Right(outbox, fired, now, b, q)
  BY <1>1, <1>10, <1>3, Zenon DEF Right
<1>5. c.kind = "timer" /\ c.boundary = b /\ c.key = b /\ c.id = <<r.arm, r.gen>>
  BY <1>10, Zenon DEF TimerClaim
<1> HIDE DEF c
<1>6. c.id[1] = r.arm /\ c.id[2] = r.gen /\ c.id = <<c.id[1], c.id[2]>>
  BY <1>5, SMT
<1>7. r.gen \in Nat /\ r.gen < Firings[b] /\ b \in Timer
  BY <1>1, BoundaryConstants, SMT DEF Record, Right, Timer
<1>8. InTurn(outbox, fired, c.key, c.id)
  BY <1>5, <1>6, <1>7, Zenon DEF InTurn, Right
<1>9. DueTime(outbox, c.id[1], c.id[2]) <= now
  BY <1>1, <1>6, Zenon DEF Right
<1> QED  BY <1>4, <1>5, <1>8, <1>9, Zenon DEF ClaimRight, TimerRight, q, c

LEMMA ClaimTimersKeeps ==
    ASSUME TInv, NEW n \in Node, ClaimTimers(n)
    PROVE  TInv'
<1> DEFINE db == store[n]
           S  == {b \in Due(db) : Claimable(db.sub[b])}
           x  == ClaimAll(db.sub, S)
           cs == {TimerClaim(b, x[b]) : b \in S}
<1>1. UNCHANGED <<now, engine, snap>>
  BY Zenon DEF ClaimTimers
<1>2. CASE Abort(n)
  BY <1>1, <1>2, AbortKeeps, Zenon
<1>3. CASE ~BadIndex(store[n]) /\ store' = [store EXCEPT ![n].sub = x] /\ Become(n, At("timers", cs))
  <2>1. StoreRight(outbox, fired, now, store[n])
    BY Zenon DEF TInv
  <2>2. /\ DOMAIN x = DOMAIN store[n].sub /\ DOMAIN x \subseteq Boundary
        /\ \A b \in DOMAIN x : x[b] = IF b \in S THEN Claim(store[n].sub[b]) ELSE store[n].sub[b]
    BY <2>1, Zenon DEF ClaimAll, StoreRight
  <2>3. \A b \in DOMAIN x : Right(outbox, fired, now, b, store[n].sub[b])
    BY <2>1, <2>2, Zenon DEF StoreRight
  <2>4. \A b \in S : b \in DOMAIN x /\ store[n].sub[b].avail <= now /\ store[n].sub[b].left # 0
    BY <1>3, <2>2, DueIsDue, Zenon
  <2>5. store' = [store EXCEPT ![n] = [store[n] EXCEPT !.sub = x]]
    BY <1>3, Zenon
  <2>6. loop' = [loop EXCEPT ![n] = At("timers", cs)]
    BY <1>3, Zenon DEF Become
  <2>7. \A c \in cs : \E b \in S : c = TimerClaim(b, x[b])
    BY Zenon
  <2> HIDE DEF x, cs, S
  <2>8. \A b \in S : /\ Right(outbox, fired, now, b, x[b])
                     /\ ClaimRight(outbox, fired, now, TimerClaim(b, x[b]))
    <3> SUFFICES ASSUME NEW b \in S
                 PROVE  /\ Right(outbox, fired, now, b, x[b])
                        /\ ClaimRight(outbox, fired, now, TimerClaim(b, x[b]))
      BY Zenon
    <3>1. b \in Boundary /\ x[b] = Claim(store[n].sub[b])
      BY <2>2, <2>4, Zenon
    <3> QED  BY <2>3, <2>4, <3>1, ClaimIsRight, Zenon
  <2>9. \A b \in DOMAIN x : Right(outbox, fired, now, b, x[b])
    BY <2>2, <2>3, <2>8, Zenon
  <2>10. StoreRight(outbox, fired, now, [store[n] EXCEPT !.sub = x])
    BY <2>1, <2>2, <2>9, SubAltered, Zenon
  <2>11. LoopRight(outbox, fired, now, At("timers", cs))
    BY <2>7, <2>8, AtIsRight, Zenon
  <2> QED  BY <1>1, <2>5, <2>6, <2>10, <2>11, Locally, Zenon DEF engine
<1> QED  BY <1>2, <1>3, Zenon DEF ClaimTimers

-----------------------------------------------------------------------------
(* Settling a claim: the record it is settled on has the same generation.     *)
LEMMA InHandIsRight ==
    ASSUME TInv, NEW n \in Node, loop[n].pc \in {"complete", "fail"}
    PROVE  /\ loop[n].at \in 0..now
           /\ ClaimRight(outbox, fired, now, InHand(n))
           /\ loop[n].pc = "complete" => Answered(fired, InHand(n))
           /\ Onwards(n) => \E l : loop' = [loop EXCEPT ![n] = l] /\ LoopRight(outbox, fired, now, l)
<1>1. LoopRight(outbox, fired, now, loop[n]) /\ loop[n] # Idle
  BY SMT DEF TInv, Idle
<1>2. AtWork(outbox, fired, now, loop[n])
  BY <1>1, Zenon DEF LoopRight
<1>3. Settling(outbox, fired, now, loop[n].pc, loop[n].claims)
  BY <1>2, Zenon DEF AtWork
<1>4. loop[n].at \in 0..now
  BY <1>2, Zenon DEF AtWork
<1> DEFINE pc == loop[n].claims[2]
           cs == loop[n].claims[3]
           l  == [pc |-> pc, claims |-> cs, at |-> loop[n].at]
<1>5. pc \in {"timers", "signals"} /\ \A c \in cs : ClaimRight(outbox, fired, now, c)
  BY <1>3, Zenon DEF Settling
<1>6. l.pc = pc /\ l.claims = cs /\ l.at = loop[n].at /\ l = [pc |-> l.pc, claims |-> l.claims, at |-> l.at]
  BY Zenon
<1>7. Onwards(n) => loop' = [loop EXCEPT ![n] = l]
  BY Zenon DEF Onwards, Proceed, Become
<1> HIDE DEF l, pc, cs
<1>8. LoopRight(outbox, fired, now, l)
  BY <1>4, <1>5, <1>6, Zenon DEF LoopRight, AtWork
<1> QED  BY <1>3, <1>4, <1>7, <1>8, Zenon DEF Settling, InHand

LEMMA WithIsRight ==
    ASSUME NEW o, NEW f, NEW t, NEW db, StoreRight(o, f, t, db), NEW b \in Boundary,
           NEW r, Right(o, f, t, b, r)
    PROVE  StoreRight(o, f, t, [db EXCEPT !.sub = With(db.sub, b, r)])
<1> DEFINE x == With(db.sub, b, r)
<1>1. DOMAIN x = DOMAIN db.sub \cup {b} /\ \A y \in DOMAIN x : x[y] = IF y = b THEN r ELSE db.sub[y]
  BY Zenon DEF With
<1> HIDE DEF x
<1>2. DOMAIN x \subseteq Boundary /\ \A y \in DOMAIN x : Right(o, f, t, y, x[y])
  BY <1>1, Zenon DEF StoreRight
<1> QED  BY <1>2, SubAltered, Zenon DEF x

LEMMA FailedIsRight ==
    ASSUME TInv, NEW b \in Boundary, NEW r, Right(outbox, fired, now, b, r), r.held,
           NEW retry \in Nat, NEW dead \in BOOLEAN
    PROVE  Right(outbox, fired, now, b,
                 [r EXCEPT !.avail = retry, !.lease = 0, !.held = FALSE, !.dead = dead])
<1> DEFINE r1 == [r EXCEPT !.avail = retry]
           r2 == [r1 EXCEPT !.lease = 0]
           r3 == [r2 EXCEPT !.held = FALSE]
           q  == [r EXCEPT !.avail = retry, !.lease = 0, !.held = FALSE, !.dead = dead]
<1>1. r \in Record /\ r.due <= now
  BY Zenon DEF Right
<1>2. q.arm = r.arm /\ q.due = r.due /\ q.left = r.left /\ q.gen = r.gen /\ q.held = FALSE
  BY <1>1, Zenon DEF Record
<1>3. q = [r3 EXCEPT !.dead = dead]
  BY Zenon
<1>4. r1 \in Record
  BY <1>1, RecordAltered, Zenon
<1> HIDE DEF r1, q
<1>5. 0 \in Nat /\ FALSE \in BOOLEAN
  BY Zenon
<1>6. r2 \in Record
  BY <1>4, <1>5, RecordAltered, Zenon
<1> HIDE DEF r2
<1>7. r3 \in Record
  BY <1>5, <1>6, RecordAltered, Zenon
<1> HIDE DEF r3
<1>8. q \in Record
  BY <1>3, <1>7, RecordAltered, Zenon
<1>9. Right(outbox, fired, now, b, q)
  BY <1>1, <1>2, <1>8, Zenon DEF Right
<1> QED  BY <1>9, Zenon DEF q

LEMMA CappedTwice ==
    ASSUME NEW x \in Nat
    PROVE  Capped(Capped(x) + Delay) = Capped(x + Delay) /\ Capped(x + Delay) \in Nat
  BY BoundaryConstants, SMT DEF Capped

LEMMA NextDueTime ==
    ASSUME NEW o, NEW b, NEW a, Arming(o, b, a), NEW g \in Nat
    PROVE  DueTime(o, a, g + 1) = Capped(DueTime(o, a, g) + Delay)
<1> DEFINE y == g * Delay
           z == (g + 1) * Delay
<1>1. Delay \in Nat
  BY BoundaryConstants, Zenon
<1>2. y \in Nat /\ z = y + Delay
  BY <1>1, SMT
<1>3. DueTime(o, a, g + 1) = Capped(o[a].due + z) /\ DueTime(o, a, g) = Capped(o[a].due + y)
  BY Zenon DEF DueTime
<1> HIDE DEF y, z
<1>4. o[a].due + y \in Nat /\ (o[a].due + y) + Delay = o[a].due + z
  BY <1>1, <1>2, SMT DEF Arming
<1> QED  BY <1>3, <1>4, CappedTwice, Zenon

LEMMA RearmedIsRight ==
    ASSUME TInv, NEW b \in Boundary, NEW r, Right(outbox, fired, now, b, r), r.held,
           NEW a \in 1..Len(outbox), <<a, r.gen>> \in DOMAIN fired, fired[<<a, r.gen>>].boundary = b
    PROVE  Right(outbox, fired, now, b, Rearmed(b, r))
<1>1. /\ r \in Record /\ r.due <= now /\ r.left > 0 /\ r.gen + r.left = Firings[b]
      /\ Arming(outbox, b, r.arm) /\ r.due = DueTime(outbox, r.arm, r.gen)
      /\ Preceded(outbox, fired, b, r.gen)
  BY Zenon DEF Right
<1>2. 0 \in Nat /\ FALSE \in BOOLEAN
  BY Zenon
<1>3. CASE b \in Interrupting \/ r.left = 1
  <2> DEFINE r1 == [r EXCEPT !.left = 0]
             r2 == [r1 EXCEPT !.lease = 0]
             q  == [r EXCEPT !.left = 0, !.lease = 0, !.held = FALSE]
  <2>1. q.arm = r.arm /\ q.due = r.due /\ q.left = 0 /\ q.gen = r.gen /\ q.held = FALSE
    BY <1>1, Zenon DEF Record
  <2>2. q = [r2 EXCEPT !.held = FALSE] /\ Rearmed(b, r) = q
    BY <1>3, Zenon DEF Rearmed
  <2>3. r1 \in Record
    BY <1>1, <1>2, RecordAltered, Zenon
  <2> HIDE DEF r1, q
  <2>4. r2 \in Record
    BY <1>2, <2>3, RecordAltered, Zenon
  <2> HIDE DEF r2
  <2>5. q \in Record
    BY <1>2, <2>2, <2>4, RecordAltered, Zenon
  <2>6. ~(q.left > 0)
    BY <2>1, SMT
  <2>7. Right(outbox, fired, now, b, q)
    BY <1>1, <2>1, <2>5, <2>6, Zenon DEF Right
  <2> QED  BY <2>2, <2>7, Zenon
<1>4. CASE ~(b \in Interrupting \/ r.left = 1)
  <2> DEFINE due == Capped(r.due + Delay)
             r1 == [r EXCEPT !.left = r.left - 1]
             r2 == [r1 EXCEPT !.due = due]
             r3 == [r2 EXCEPT !.avail = due]
             r4 == [r3 EXCEPT !.gen = r.gen + 1]
             r5 == [r4 EXCEPT !.attempts = 0]
             r6 == [r5 EXCEPT !.lease = 0]
             q  == [r6 EXCEPT !.held = FALSE]
  <2>1. Rearmed(b, r) = [r EXCEPT !.left = @ - 1, !.due = due, !.avail = due, !.gen = @ + 1,
                                  !.attempts = 0, !.lease = 0, !.held = FALSE]
    BY <1>1, <1>4, Zenon DEF Rearmed, Record
  <2>2. due \in Nat /\ due = DueTime(outbox, r.arm, r.gen + 1)
    <3>1. r.gen \in Nat /\ r.gen + 1 \in Nat
      BY <1>1, SMT DEF Record
    <3>2. DueTime(outbox, r.arm, r.gen + 1) = Capped(DueTime(outbox, r.arm, r.gen) + Delay)
      BY <1>1, <3>1, NextDueTime, Zenon
    <3>3. DueTime(outbox, r.arm, r.gen + 1) \in Nat
      BY <1>1, <3>1, DueTimeIsNat, Zenon
    <3> QED  BY <1>1, <3>2, <3>3, Zenon
  <2>3. r.gen + 1 \in Nat /\ r.left - 1 \in Nat /\ r.left - 1 > 0 /\ (r.gen + 1) + (r.left - 1) = Firings[b]
    <3>1. r.gen \in Nat /\ r.left \in Nat
      BY <1>1, SMT DEF Record
    <3>2. r.left > 0 /\ r.left # 1 /\ r.gen + r.left = Firings[b]
      BY <1>1, <1>4, Zenon
    <3> HIDE DEF q, due, r1, r2, r3, r4, r5, r6
    <3> QED  BY <3>1, <3>2, SMT
  <2> HIDE DEF due
  <2>4. q = [r EXCEPT !.left = r.left - 1, !.due = due, !.avail = due, !.gen = r.gen + 1,
                      !.attempts = 0, !.lease = 0, !.held = FALSE]
    BY Zenon
  <2>5. q = Rearmed(b, r)
    BY <1>1, <2>1, <2>4, Zenon DEF Record
  <2>6. q.arm = r.arm /\ q.due = due /\ q.left = r.left - 1 /\ q.gen = r.gen + 1 /\ q.avail = due /\ q.held = FALSE
    BY <1>1, <2>4, Zenon DEF Record
  <2>7. r1 \in Record
    BY <1>1, <2>3, RecordAltered, Zenon
  <2> HIDE DEF r1, q
  <2>8. r2 \in Record
    BY <2>2, <2>7, RecordAltered, Zenon
  <2> HIDE DEF r2
  <2>9. r3 \in Record
    BY <2>2, <2>8, RecordAltered, Zenon
  <2> HIDE DEF r3
  <2>10. r4 \in Record
    BY <2>3, <2>9, RecordAltered, Zenon
  <2> HIDE DEF r4
  <2>11. r5 \in Record
    BY <1>2, <2>10, RecordAltered, Zenon
  <2> HIDE DEF r5
  <2>12. r6 \in Record
    BY <1>2, <2>11, RecordAltered, Zenon
  <2> HIDE DEF r6
  <2>13. q \in Record
    BY <1>2, <2>12, RecordAltered, Zenon DEF q
  <2>14. Preceded(outbox, fired, b, r.gen + 1)
    <3> SUFFICES ASSUME NEW h \in 0..(r.gen + 1) - 1
                 PROVE  \E c \in 1..Len(outbox) : <<c, h>> \in DOMAIN fired /\ fired[<<c, h>>].boundary = b
      BY Zenon DEF Preceded
    <3>1. h = r.gen \/ h \in 0..r.gen - 1
      BY <1>1, SMT DEF Record
    <3> QED  BY <1>1, <3>1, Zenon DEF Preceded
  <2>15. due <= due
    BY <2>2, SMT
  <2>16. Right(outbox, fired, now, b, q)
    BY <1>1, <1>4, <2>2, <2>3, <2>6, <2>13, <2>14, <2>15, Zenon DEF Right
  <2> QED  BY <2>5, <2>16, Zenon
<1> QED  BY <1>3, <1>4, Zenon

LEMMA TimerInHand ==
    ASSUME TInv, NEW n \in Node, loop[n].pc \in {"complete", "fail"},
           InHand(n).kind = "timer", Holds(n)
    PROVE  /\ InHand(n).key \in Boundary /\ InHand(n).key \in DOMAIN store[n].sub
           /\ Right(outbox, fired, now, InHand(n).key, store[n].sub[InHand(n).key])
           /\ store[n].sub[InHand(n).key].held
           /\ store[n].sub[InHand(n).key].gen = InHand(n).id[2]
           /\ TimerRight(outbox, fired, now, InHand(n))
<1> DEFINE c == InHand(n)
<1>1. TimerRight(outbox, fired, now, c)
  <2>1. ClaimRight(outbox, fired, now, c)
    BY InHandIsRight, Zenon
  <2> QED  BY <2>1, Zenon DEF ClaimRight, SignalRight
<1>2. Family(n) = store[n].sub
  BY Zenon DEF Family
<1>3. c.key \in DOMAIN store[n].sub /\ store[n].sub[c.key].held /\ store[n].sub[c.key].gen = c.id[2]
  BY <1>2, Zenon DEF Holds
<1>4. StoreRight(outbox, fired, now, store[n])
  BY Zenon DEF TInv
<1>5. c.key \in Boundary
  BY <1>1, Zenon DEF TimerRight, InTurn, Timer
<1> QED  BY <1>1, <1>3, <1>4, <1>5, Zenon DEF StoreRight

(* The store and the loop of a node after its claim of a timer is settled. *)
LEMMA SettledTimer ==
    ASSUME TInv, NEW n \in Node, loop[n].pc \in {"complete", "fail"}, Onwards(n),
           UNCHANGED <<now, engine, snap>>, NEW b \in Boundary, NEW q, NEW x,
           Right(outbox, fired, now, b, q),
           store' = [store EXCEPT ![n] = [[store[n] EXCEPT !.sub = With(store[n].sub, b, q)]
                                             EXCEPT !.timers = x]]
    PROVE  TInv'
<1> DEFINE d1 == [store[n] EXCEPT !.sub = With(store[n].sub, b, q)]
           d2 == [d1 EXCEPT !.timers = x]
<1>1. StoreRight(outbox, fired, now, d1)
  BY WithIsRight, Zenon DEF TInv
<1>2. store' = [store EXCEPT ![n] = d2]
  BY Zenon
<1> HIDE DEF d1
<1>3. StoreRight(outbox, fired, now, d2)
  BY <1>1, TimersAltered, Zenon
<1> HIDE DEF d2
<1>4. PICK l : loop' = [loop EXCEPT ![n] = l] /\ LoopRight(outbox, fired, now, l)
  BY InHandIsRight, Zenon
<1> QED  BY <1>2, <1>3, <1>4, Locally, Zenon DEF engine

LEMMA CompleteTimerKeeps ==
    ASSUME TInv, NEW n \in Node, CompleteTimer(n)
    PROVE  TInv'
<1> DEFINE c == InHand(n)
           r == store[n].sub[c.key]
           q == Rearmed(c.key, r)
           x == (store[n].timers \ {<<r.avail, c.key>>})
                    \cup (IF q.left > 0 THEN {<<q.avail, c.key>>} ELSE {})
<1>1. UNCHANGED <<now, engine, snap>> /\ loop[n].pc = "complete" /\ c.kind = "timer"
  BY Zenon DEF CompleteTimer
<1>2. CASE Abort(n)
  BY <1>1, <1>2, AbortKeeps, Zenon
<1>3. CASE /\ Holds(n) /\ Onwards(n)
           /\ store' = [store EXCEPT ![n].sub = With(@, c.key, q),
                            ![n].timers = (@ \ {<<r.avail, c.key>>})
                                             \cup (IF q.left > 0 THEN {<<q.avail, c.key>>} ELSE {})]
  <2>1. store' = [store EXCEPT ![n] = [[store[n] EXCEPT !.sub = With(store[n].sub, c.key, q)]
                                          EXCEPT !.timers = x]]
    BY <1>3, Zenon
  <2>2. /\ c.key \in Boundary /\ Right(outbox, fired, now, c.key, r) /\ r.held
        /\ r.gen = c.id[2] /\ TimerRight(outbox, fired, now, c)
    BY <1>1, <1>3, TimerInHand, Zenon
  <2>3. c.id \in DOMAIN fired /\ fired[c.id].boundary = c.key
    BY <1>1, InHandIsRight, Zenon DEF Answered
  <2>4. c.id[1] \in 1..Len(outbox) /\ c.id = <<c.id[1], r.gen>>
    BY <2>2, Zenon DEF TimerRight, InTurn, Arming
  <2> HIDE DEF c, r, x
  <2>5. Right(outbox, fired, now, c.key, q)
    BY <2>2, <2>3, <2>4, RearmedIsRight, Zenon
  <2> HIDE DEF q
  <2> QED  BY <1>1, <1>3, <2>1, <2>2, <2>5, SettledTimer, Zenon
<1> QED  BY <1>2, <1>3, Zenon DEF CompleteTimer

LEMMA FailTimerKeeps ==
    ASSUME TInv, NEW n \in Node, FailTimer(n)
    PROVE  TInv'
<1> DEFINE c == InHand(n)
           r == store[n].sub[c.key]
           dead  == c.attempts >= MaxDispatchAttempts
           retry == Capped(loop[n].at + RetryDelay)
           q == [r EXCEPT !.avail = retry, !.lease = 0, !.held = FALSE, !.dead = dead]
           x == (store[n].timers \ {<<r.avail, c.key>>})
                    \cup (IF dead THEN {} ELSE {<<retry, c.key>>})
<1>1. UNCHANGED <<now, engine, snap>> /\ loop[n].pc = "fail" /\ c.kind = "timer"
  BY Zenon DEF FailTimer
<1>2. CASE Abort(n)
  BY <1>1, <1>2, AbortKeeps, Zenon
<1>3. CASE /\ Holds(n) /\ Onwards(n)
           /\ store' = [store EXCEPT ![n].sub = With(@, c.key, q),
                            ![n].timers = (@ \ {<<r.avail, c.key>>})
                                             \cup (IF dead THEN {} ELSE {<<retry, c.key>>})]
  <2>1. store' = [store EXCEPT ![n] = [[store[n] EXCEPT !.sub = With(store[n].sub, c.key, q)]
                                          EXCEPT !.timers = x]]
    BY <1>3, Zenon
  <2>2. c.key \in Boundary /\ Right(outbox, fired, now, c.key, r) /\ r.held
    BY <1>1, <1>3, TimerInHand, Zenon
  <2>3. dead \in BOOLEAN
    BY SMT
  <2>4. retry \in Nat
    <3>1. loop[n].at \in Nat
      BY <1>1, InHandIsRight, SMT DEF TInv, World
    <3> QED  BY <3>1, BoundaryConstants, SMT DEF Capped
  <2> HIDE DEF c, r, x, dead, retry
  <2>5. Right(outbox, fired, now, c.key, q)
    BY <2>2, <2>3, <2>4, FailedIsRight, Zenon
  <2> HIDE DEF q
  <2> QED  BY <1>1, <1>3, <2>1, <2>2, <2>5, SettledTimer, Zenon
<1> QED  BY <1>2, <1>3, Zenon DEF FailTimer

LEMMA SettleSignalKeeps ==
    ASSUME TInv, NEW n \in Node, SettleSignal(n)
    PROVE  TInv'
<1> DEFINE c == InHand(n)
           r == store[n].sig[c.key]
           done  == loop[n].pc = "complete"
           dead  == ~done /\ c.attempts >= MaxDispatchAttempts
           retry == IF done THEN 0 ELSE Capped(loop[n].at + RetryDelay)
           q == [r EXCEPT !.avail = retry, !.lease = 0, !.held = FALSE, !.done = done, !.dead = dead]
           x == With(store[n].sig, c.key, q)
           y == (store[n].signals \ {<<r.avail, c.key>>})
                    \cup (IF done \/ dead THEN {} ELSE {<<retry, c.key>>})
           d1 == [store[n] EXCEPT !.sig = x]
           d2 == [d1 EXCEPT !.signals = y]
<1>1. UNCHANGED <<now, engine, snap>> /\ loop[n].pc \in {"complete", "fail"} /\ c.kind = "signal"
  BY Zenon DEF SettleSignal
<1>2. CASE Abort(n)
  BY <1>1, <1>2, AbortKeeps, Zenon
<1>3. CASE /\ Holds(n) /\ Onwards(n)
           /\ store' = [store EXCEPT ![n].sig = With(@, c.key, q),
                            ![n].signals = (@ \ {<<r.avail, c.key>>})
                                              \cup (IF done \/ dead THEN {} ELSE {<<retry, c.key>>})]
  <2>1. store' = [store EXCEPT ![n] = d2]
    BY <1>3, Zenon
  <2>2. Family(n) = store[n].sig
    BY <1>1, Zenon DEF Family
  <2>3. c.key \in DOMAIN store[n].sig
    BY <1>3, <2>2, Zenon DEF Holds
  <2>4. StoreRight(outbox, fired, now, store[n])
    BY Zenon DEF TInv
  <2>5. DOMAIN x = DOMAIN store[n].sig \cup {c.key}
    BY Zenon DEF With
  <2> HIDE DEF c, r, x, y
  <2>6. DOMAIN x \subseteq Signal
    BY <2>3, <2>4, <2>5, Zenon DEF StoreRight
  <2>7. StoreRight(outbox, fired, now, d1)
    BY <2>4, <2>6, SigAltered, Zenon
  <2> HIDE DEF d1
  <2>8. StoreRight(outbox, fired, now, d2)
    BY <2>7, SignalsAltered, Zenon
  <2> HIDE DEF d2
  <2>9. PICK l : loop' = [loop EXCEPT ![n] = l] /\ LoopRight(outbox, fired, now, l)
    BY <1>1, <1>3, InHandIsRight, Zenon
  <2> QED  BY <1>1, <2>1, <2>8, <2>9, Locally, Zenon DEF engine
<1> QED  BY <1>2, <1>3, Zenon DEF SettleSignal

-----------------------------------------------------------------------------
(* Projection: a record is an old one, or new from an arming of the outbox.   *)
LEMMA ArmedEvent ==
    ASSUME TInv, NEW c \in 1..Len(outbox), outbox[c].kind = "armed"
    PROVE  outbox[c].boundary \in Boundary /\ Arming(outbox, outbox[c].boundary, c)
<1>1. outbox[c] \in Event
  BY SMT DEF TInv, World
<1>2. outbox[c] \notin Disarms
  BY SMT DEF Disarms, Disarmed
<1>3. PICK b \in Boundary : \E due \in 0..MaxTime : outbox[c] = Armed(b, due)
  BY <1>1, <1>2, Zenon DEF Event, Arms
<1>4. PICK due \in 0..MaxTime : outbox[c] = Armed(b, due)
  BY <1>3, Zenon
<1>5. outbox[c].boundary = b /\ outbox[c].due = due
  BY <1>4, SMT DEF Armed
<1> QED  BY <1>5, Zenon DEF Arming

LEMMA SubscriptionIsRight ==
    ASSUME TInv, NEW b, NEW c, Arming(outbox, b, c), b \in Boundary
    PROVE  Right(outbox, fired, now, b, Subscription(b, c))
<1> DEFINE q == Subscription(b, c)
<1>1. outbox[c].due \in Nat /\ c \in Nat /\ Firings[b] \in Nat /\ 0 \in Nat
  BY BoundaryConstants, SMT DEF Arming
<1>2. /\ q.arm = c /\ q.due = outbox[c].due /\ q.left = Firings[b] /\ q.gen = 0 /\ q.avail = outbox[c].due
      /\ q.held = FALSE
  BY Zenon DEF Subscription
<1>3. q \in Record
  BY <1>1, Zenon DEF Subscription, Record
<1>4. outbox[c].due = DueTime(outbox, c, 0)
  <2>1. 0 * Delay = 0
    BY BoundaryConstants, SMT
  <2> QED  BY <2>1, BoundaryConstants, SMT DEF DueTime, Capped, Arming
<1>5. Preceded(outbox, fired, b, 0)
  BY SMT DEF Preceded
<1>6. 0 + Firings[b] = Firings[b] /\ outbox[c].due <= outbox[c].due
  BY <1>1, SMT
<1> HIDE DEF q
<1>7. Right(outbox, fired, now, b, q)
  BY <1>2, <1>3, <1>4, <1>5, <1>6, Zenon DEF Right
<1> QED  BY <1>7, Zenon DEF q

LEMMA ProjectedIsRight ==
    ASSUME TInv, NEW n \in Node, NEW upto \in store[n].ckpt .. Len(outbox)
    PROVE  StoreRight(outbox, fired, now, Projected(store[n], store[n].ckpt + 1, upto))
<1> DEFINE cs == store[n].ckpt + 1 .. upto
           x  == ProjectedSubs(store[n], cs)
           put(b) == {c \in cs : b \in Puts(c) /\ LastOf(Writes(store[n], cs, b), c)}
           old == {b \in DOMAIN store[n].sub : Writes(store[n], cs, b) = {}}
           new == {b \in Boundary : put(b) # {}}
<1>1. StoreRight(outbox, fired, now, store[n])
  BY Zenon DEF TInv
<1>2. cs \subseteq 1..Len(outbox) /\ upto \in 0..Len(outbox)
  <2>1. store[n].ckpt \in Nat /\ Len(outbox) \in Nat
    BY <1>1, SMT DEF StoreRight, TInv, World
  <2> QED  BY <2>1, SMT
<1> HIDE DEF cs
<1>3. /\ DOMAIN x = old \cup new
      /\ \A b \in old : x[b] = store[n].sub[b]
      /\ \A b \in new : b \in old \/ x[b] = Subscription(b, CHOOSE c \in put(b) : TRUE)
  BY Zenon DEF ProjectedSubs
<1>4. DOMAIN x \subseteq Boundary
  BY <1>1, <1>3, Zenon DEF StoreRight
<1>5. \A b \in old : Right(outbox, fired, now, b, x[b])
  BY <1>1, <1>3, Zenon DEF StoreRight
<1>6. \A b \in new : Right(outbox, fired, now, b, x[b])
  <2> SUFFICES ASSUME NEW b \in new, b \notin old PROVE Right(outbox, fired, now, b, x[b])
    BY <1>5, Zenon
  <2> DEFINE c == CHOOSE d \in put(b) : TRUE
  <2>1. c \in put(b)
    BY Zenon
  <2> HIDE DEF c
  <2>2. c \in 1..Len(outbox) /\ b \in Puts(c)
    BY <1>2, <2>1, Zenon
  <2>3. outbox[c].kind = "armed" /\ outbox[c].boundary = b
    BY <2>2, Zenon DEF Puts
  <2>4. b \in Boundary /\ Arming(outbox, b, c)
    BY <2>2, <2>3, ArmedEvent, Zenon
  <2>5. x[b] = Subscription(b, c)
    BY <1>3, Zenon DEF c
  <2> QED  BY <2>4, <2>5, SubscriptionIsRight, Zenon
<1>7. \A b \in DOMAIN x : Right(outbox, fired, now, b, x[b])
  BY <1>3, <1>5, <1>6, Zenon
<1> DEFINE d1 == [store[n] EXCEPT !.ckpt = upto]
           d2 == [d1 EXCEPT !.sub = x]
           d3 == [d2 EXCEPT !.timers = ProjectedTimers(store[n], cs)]
<1>8. Projected(store[n], store[n].ckpt + 1, upto) = d3
  BY Zenon DEF Projected, cs
<1> HIDE DEF x
<1>9. StoreRight(outbox, fired, now, d1)
  BY <1>1, <1>2, CkptAltered, Zenon
<1> HIDE DEF d1
<1>10. StoreRight(outbox, fired, now, d2)
  BY <1>4, <1>7, <1>9, SubAltered, Zenon
<1> HIDE DEF d2
<1>11. StoreRight(outbox, fired, now, d3)
  BY <1>10, TimersAltered, Zenon
<1> QED  BY <1>8, <1>11, Zenon

LEMMA ProjectKeeps ==
    ASSUME TInv, NEW n \in Node, Project(n)
    PROVE  TInv'
<1>1. UNCHANGED <<now, engine, snap>> /\ loop' = [loop EXCEPT ![n] = At("claim_timers", {})]
  BY Zenon DEF Project, Become
<1>2. LoopRight(outbox, fired, now, At("claim_timers", {}))
  BY AtIsRight, Zenon
<1>3. PICK upto \in store[n].ckpt .. Len(outbox) :
         store' = IF upto = store[n].ckpt THEN store
                  ELSE [store EXCEPT ![n] = Projected(store[n], store[n].ckpt + 1, upto)]
  BY Zenon DEF Project
<1> DEFINE db == Projected(store[n], store[n].ckpt + 1, upto)
<1>4. StoreRight(outbox, fired, now, db)
  BY ProjectedIsRight, Zenon
<1> HIDE DEF db
<1>5. CASE upto = store[n].ckpt
  <2>1. store' = [store EXCEPT ![n] = store[n]]
    BY <1>3, <1>5, Zenon DEF TInv
  <2> QED  BY <1>1, <1>2, <2>1, Locally, Zenon DEF engine
<1>6. CASE upto # store[n].ckpt
  <2>1. store' = [store EXCEPT ![n] = db]
    BY <1>3, <1>6, Zenon DEF db
  <2> QED  BY <1>1, <1>2, <1>4, <2>1, Locally, Zenon DEF engine
<1> QED  BY <1>5, <1>6, Zenon

LEMMA LoopStepKeeps ==
    ASSUME TInv, NEW n \in Node, LoopStep(n)
    PROVE  TInv'
  BY ProjectKeeps, ClaimTimersKeeps, ClaimSignalsKeeps, EndTurnKeeps, DispatchKeeps,
     CompleteTimerKeeps, FailTimerKeeps, SettleSignalKeeps, Zenon DEF LoopStep

-----------------------------------------------------------------------------
(* Changes of leader, crashes and snapshots. *)
LEMMA StandsStill ==
    ASSUME TInv, UNCHANGED <<now, outbox, fired, store, snap, loop>>
    PROVE  TInv'
  BY Zenon DEF TInv

LEMMA CrashKeeps ==
    ASSUME TInv, NEW n \in Node, Crash(n)
    PROVE  TInv'
<1>1. Abort(n) /\ UNCHANGED <<now, engine, snap>>
  BY Zenon DEF Crash, Abort
<1> QED  BY <1>1, AbortKeeps, Zenon

LEMMA BuildSnapshotKeeps ==
    ASSUME TInv, NEW n \in Node, BuildSnapshot(n)
    PROVE  TInv'
  BY Zenon DEF TInv, BuildSnapshot, engine

LEMMA InstallSnapshotKeeps ==
    ASSUME TInv, NEW n \in Node, InstallSnapshot(n)
    PROVE  TInv'
<1>1. store' = [store EXCEPT ![n] = snap] /\ StoreRight(outbox, fired, now, snap)
  BY Zenon DEF InstallSnapshot, TInv
<1>2. loop' = [loop EXCEPT ![n] = loop[n]] /\ LoopRight(outbox, fired, now, loop[n])
  BY Zenon DEF InstallSnapshot, TInv
<1> QED  BY <1>1, <1>2, Locally, Zenon DEF InstallSnapshot, engine

-----------------------------------------------------------------------------
LEMMA TInvHolds == Spec => []TInv
<1>1. TInv /\ [Next]_vars => TInv'
  <2> SUFFICES ASSUME TInv, [Next]_vars PROVE TInv'
    BY Zenon
  <2>1. CASE Tick
    BY <2>1, TickKeeps, Zenon
  <2>2. ASSUME NEW a \in Activity, Enter(a) PROVE TInv'
    BY <2>2, EnterKeeps, Zenon
  <2>3. ASSUME NEW a \in Activity, Leave(a) PROVE TInv'
    BY <2>3, LeaveKeeps, Zenon
  <2>4. ASSUME NEW n \in Node, NEW s \in Signal, EnqueueSignal(n, s) PROVE TInv'
    BY <2>4, EnqueueSignalKeeps, Zenon
  <2>5. ASSUME NEW n \in Node, LoopStep(n) PROVE TInv'
    BY <2>5, LoopStepKeeps, Zenon
  <2>6. ASSUME NEW n \in Node, Elect(n) PROVE TInv'
    BY <2>6, StandsStill, Zenon DEF Elect, engine
  <2>7. ASSUME NEW n \in Node, Crash(n) PROVE TInv'
    BY <2>7, CrashKeeps, Zenon
  <2>8. ASSUME NEW n \in Node, BuildSnapshot(n) PROVE TInv'
    BY <2>8, BuildSnapshotKeeps, Zenon
  <2>9. ASSUME NEW n \in Node, InstallSnapshot(n) PROVE TInv'
    BY <2>9, InstallSnapshotKeeps, Zenon
  <2>10. CASE UNCHANGED vars
    BY <2>10, StandsStill, Zenon DEF vars, engine
  <2> QED  BY <2>1, <2>2, <2>3, <2>4, <2>5, <2>6, <2>7, <2>8, <2>9, <2>10, Zenon DEF Next
<1> QED  BY <1>1, InitRight, PTL DEF Spec

(* Whatever claims time out, whoever leads, and whatever snapshot a node      *)
(* installs under a turn of its worker: no timer fires more often than        *)
(* configured or out of turn, and none before its time (claim_due_timers,     *)
(* complete_timer, fail_timer).                                               *)
THEOREM TimersInTurn == Spec => []TimersFireInTurn
<1>1. TInv => TimersFireInTurn
  <2> SUFFICES ASSUME TInv, NEW id \in TimerFirings
               PROVE  LET b == fired[id].boundary IN
                      /\ id[2] < Firings[b]
                      /\ b \in Interrupting => id[2] = 0
                      /\ \A g \in 0..id[2] - 1 : \E a \in 1..Len(outbox) :
                            <<a, g>> \in TimerFirings /\ fired[<<a, g>>].boundary = b
                      /\ fired[id].at >= Capped(outbox[id[1]].due + id[2] * Delay)
    BY Zenon DEF TimersFireInTurn, FiringsAreCounted, NeverBeforeItsTime
  <2>1. FiringRight(outbox, fired, id) /\ fired[id].boundary \in Timer
    BY Zenon DEF TimerFirings, TInv, World
  <2>2. InTurn(outbox, fired, fired[id].boundary, id) /\ fired[id].at >= DueTime(outbox, id[1], id[2])
    BY <2>1, Zenon DEF FiringRight
  <2> QED  BY <2>1, <2>2, Zenon DEF InTurn, Preceded, DueTime, TimerFirings
<1> QED  BY <1>1, TInvHolds, PTL
=============================================================================
