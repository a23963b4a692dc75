------------------------- MODULE TableSetupProofs -------------------------
(***************************************************************************)
(* EnsuredMeansReady and OncePerProcess, for any connectors, databases,    *)
(* failures and starts.  An actor in the middle of its set-up has got what *)
(* its statements so far are for (Progress), nothing is ever taken out of  *)
(* the database, and the flag of a group is what ties the actors together: *)
(* it is raised with everything ready, and by the only complete pass.      *)
(***************************************************************************)
EXTENDS TableSetup, TLAPS

There(g) == \A i \in 1..Len(Creates(g)) : Thing("table", Creates(g)[i]) \in db

Progress ==
  \A a \in Actors :
    /\ pc[a] = "create" => \A i \in 1..(at[a] - 1) : Thing("table", Creates(Group(a))[i]) \in db
    /\ pc[a] \in {"lock", "migrate"} => There(Group(a))
    /\ pc[a] = "migrate" => /\ \A i \in 1..(at[a] - 1) : Migrations(Group(a))[i] \in db
                            /\ ~migrated[Group(a)]

FlagHolds ==
  /\ \A g \in Groups : migrated[g] => Ready(g)
  /\ \A a \in Actors : ensured[a] => migrated[Group(a)]
  /\ \A g \in Groups : passes[g] = IF migrated[g] THEN 1 ELSE 0

\* Nobody is at work in a process that has ended.
Asleep == process = "down" => \A a \in Actors : pc[a] = "idle" /\ at[a] = 1

Inv == TypeOK /\ Progress /\ FlagHolds

LEMMA GroupType == \A a \in Actors : Group(a) \in Groups
  BY DEF Group, Groups

LEMMA CreatesType ==
  \A g \in Groups :
    /\ Len(Creates(g)) = 4
    /\ \A i \in 1..Len(Creates(g)) : Creates(g)[i] \in Tables
  BY DEF Groups, Creates, Tables, ExchangeTables, PolymarketTables

\* Migrations are about tables of their group.
LEMMA MigrationsType ==
  \A g \in Groups :
    /\ Len(Migrations(g)) \in Nat /\ Len(Migrations(g)) >= 1
    /\ \A i \in 1..Len(Migrations(g)) :
         /\ Migrations(g)[i] \in Things
         /\ \E j \in 1..Len(Creates(g)) : Migrations(g)[i].table = Creates(g)[j]
<1>1. \A i \in 1..4 : Migrations("exchange")[i] = Thing("ttl", ExchangeTables[i])
  BY DEF Migrations, ExchangeTables
<1>2. Len(Migrations("exchange")) = 4 /\ Len(Creates("exchange")) = 4
  BY DEF Migrations, Creates, ExchangeTables
<1>3. Len(Migrations("polymarket")) = 5 /\ Len(Creates("polymarket")) = 4
  BY DEF Migrations, Creates, PolymarketTables
<1>4. \A i \in 1..5 : \E j \in 1..4 : \E w \in {"ttl", "column"} :
        Migrations("polymarket")[i] = Thing(w, PolymarketTables[j])
  <2>1. /\ Migrations("polymarket")[1] = Thing("column", PolymarketTables[2])
        /\ Migrations("polymarket")[2] = Thing("ttl", PolymarketTables[1])
        /\ Migrations("polymarket")[3] = Thing("ttl", PolymarketTables[3])
        /\ Migrations("polymarket")[4] = Thing("ttl", PolymarketTables[2])
        /\ Migrations("polymarket")[5] = Thing("ttl", PolymarketTables[4])
    BY DEF Migrations, PolymarketTables
  <2> QED
    BY <2>1
<1>5. \A g \in Groups : \A i \in 1..Len(Migrations(g)) :
        \E j \in 1..4 : \E w \in {"ttl", "column"} : Migrations(g)[i] = Thing(w, Creates(g)[j])
  BY <1>1, <1>2, <1>3, <1>4 DEF Groups, Creates
<1>6. \A w \in {"ttl", "column"}, t \in Tables : Thing(w, t) \in Things /\ Thing(w, t).table = t
  BY DEF Thing, Things
<1>7. \A g \in Groups : Len(Migrations(g)) \in Nat /\ Len(Migrations(g)) >= 1
  <2>1. \A g \in Groups : Len(Migrations(g)) \in {4, 5}
    BY <1>2, <1>3 DEF Groups
  <2> QED
    BY <2>1
<1>8. ASSUME NEW g \in Groups, NEW i \in 1..Len(Migrations(g))
      PROVE  /\ Migrations(g)[i] \in Things
             /\ \E j \in 1..Len(Creates(g)) : Migrations(g)[i].table = Creates(g)[j]
  <2>1. PICK j \in 1..4, w \in {"ttl", "column"} : Migrations(g)[i] = Thing(w, Creates(g)[j])
    BY <1>5
  <2>2. Len(Creates(g)) = 4 /\ Creates(g)[j] \in Tables
    BY CreatesType
  <2> QED
    BY <1>6, <2>1, <2>2
<1> QED
  BY <1>7, <1>8

\* What a CREATE leaves: what was there, the table, and nothing without one.
LEMMA CreatedType ==
  ASSUME NEW d \in SUBSET Things, NEW t \in Tables,
         \A x \in d : Thing("table", x.table) \in d
  PROVE  /\ Created(d, t) \subseteq Things /\ d \subseteq Created(d, t)
         /\ Thing("table", t) \in Created(d, t)
         /\ \A x \in Created(d, t) : Thing("table", x.table) \in Created(d, t)
  BY DEF Created, Thing, Things

LEMMA InitInv == Init => Inv
<1> SUFFICES ASSUME Init PROVE Inv
  OBVIOUS
<1>1. PICK there \in Installations : db = {Thing("table", t) : t \in there}
  BY DEF Init
<1>2. there \subseteq Tables
  BY InstalledAssumption
<1>3. db \subseteq Things /\ \A x \in db : Thing("table", x.table) \in db
  BY <1>1, <1>2 DEF Thing, Things
<1>4. TypeOK
  <2>1. \A a \in Actors : pc[a] \in {"create", "idle"} /\ at[a] = 1
    BY DEF Init
  <2>2. pc \in [Actors -> Places] /\ at \in [Actors -> Nat]
    BY DEF Init, Places
  <2>3. RetryNumber \in Nat
    BY SetupBoundsAssumption
  <2>4. retries \in [Connectors -> 0..RetryNumber]
    BY <2>3 DEF Init
  <2>5. lock \notin Actors /\ lock = Nobody
    BY NobodyAssumption DEF Init
  <2>6. \A a \in Actors : at[a] \in 1..Len(Creates(Group(a)))
    <3> TAKE a \in Actors
    <3>1. at[a] = 1 /\ Len(Creates(Group(a))) = 4
      BY <2>1, CreatesType, GroupType
    <3> QED
      BY <3>1
  <2>7. /\ migrated \in [Groups -> BOOLEAN] /\ ensured \in [Actors -> BOOLEAN]
        /\ passes \in [Groups -> Nat]
    BY DEF Init
  <2>8. process \in {"up", "down"} /\ starts \in Nat /\ faults \in Nat
    BY DEF Init
  <2> QED
    BY <1>3, <2>1, <2>2, <2>4, <2>5, <2>6, <2>7, <2>8 DEF TypeOK, Typed
<1>5. Progress
  BY DEF Init, Progress
<1>6. FlagHolds
  BY GroupType DEF Init, FlagHolds
<1> QED
  BY <1>4, <1>5, <1>6 DEF Inv

---------------------------------------------------------------------------

\* A connector goes on without touching tables, flags or the lock.
LEMMA QuietStep ==
  ASSUME Inv, NEW c \in Connectors, NEW p \in Places \ {"lock", "migrate"},
         pc[c] # "migrate", pc' = [pc EXCEPT ![c] = p],
         at' = at \/ at' = [at EXCEPT ![c] = 1], p = "create" => at'[c] = 1,
         ensured' = ensured \/ ensured' = [ensured EXCEPT ![c] = FALSE],
         UNCHANGED <<process, starts>>, faults' \in Nat,
         retries' \in [Connectors -> 0..RetryNumber], UNCHANGED setup
  PROVE  Inv'
<1> USE DEF Inv, setup
<1>1. c \in Actors
  BY DEF Actors
<1>2. TypeOK'
  <2>1. pc' \in [Actors -> Places] /\ at' \in [Actors -> Nat]
    <3>1. pc \in [Actors -> Places] /\ at \in [Actors -> Nat]
      BY DEF TypeOK, Typed
    <3>2. [pc EXCEPT ![c] = p] \in [Actors -> Places] /\ [at EXCEPT ![c] = 1] \in [Actors -> Nat]
      BY <3>1
    <3> QED
      BY <3>1, <3>2
  <2>2. ensured' \in [Actors -> BOOLEAN]
    BY <1>1 DEF TypeOK, Typed
  <2>3. Typed'
    BY <2>1, <2>2 DEF TypeOK, Typed
  <2>4. \A a \in Actors : pc'[a] = "migrate" <=> lock' = a
    BY <1>1 DEF TypeOK, Typed
  <2>5. ASSUME NEW a \in Actors
        PROVE  /\ pc'[a] = "create" => at'[a] \in 1..Len(Creates(Group(a)))
               /\ pc'[a] = "migrate" => at'[a] \in 1..Len(Migrations(Group(a)))
    <3>1. CASE a = c
      <4>1. Len(Creates(Group(c))) = 4 /\ pc'[c] = p
        BY <1>1, GroupType, CreatesType DEF TypeOK, Typed
      <4> QED
        BY <3>1, <4>1
    <3>2. CASE a # c
      <4>1. pc'[a] = pc[a] /\ at'[a] = at[a]
        BY <1>1, <3>2 DEF TypeOK, Typed
      <4>2. /\ pc[a] = "create" => at[a] \in 1..Len(Creates(Group(a)))
            /\ pc[a] = "migrate" => at[a] \in 1..Len(Migrations(Group(a)))
        BY DEF TypeOK
      <4> QED
        BY <4>1, <4>2
    <3> QED
      BY <3>1, <3>2
  <2> QED
    BY <2>3, <2>4, <2>5 DEF TypeOK
<1>3. Progress'
  BY <1>1 DEF Progress, There, TypeOK, Typed
<1>4. FlagHolds'
  BY <1>1 DEF FlagHolds, Ready, TypeOK, Typed
<1> QED
  BY <1>2, <1>3, <1>4

\* A process that ends knows nothing any more.
LEMMA DownStep == Inv /\ Down /\ faults' \in Nat => Inv'
<1> SUFFICES ASSUME Inv, Down, faults' \in Nat PROVE Inv'
  OBVIOUS
<1> USE DEF Inv, Down
<1>1. TypeOK'
  BY NobodyAssumption, SetupBoundsAssumption DEF TypeOK, Typed, Places
<1>2. Progress'
  BY DEF Progress
<1>3. FlagHolds'
  BY GroupType DEF FlagHolds
<1> QED
  BY <1>1, <1>2, <1>3

\* Nothing is taken out of the database.
LEMMA ReadyStays == ASSUME db \subseteq db' PROVE \A g \in Groups : Ready(g) => Ready(g)'
  BY DEF Ready
LEMMA ThereStays == ASSUME db \subseteq db' PROVE \A g \in Groups : There(g) => There(g)'
  BY DEF There

LEMMA CreateStep == ASSUME Inv, NEW a \in Actors, Create(a) PROVE Inv'
<1> DEFINE g  == Group(a)
           to == Created(db, Creates(g)[at[a]])
<1> USE DEF Inv
<1>1. /\ pc[a] = "create" /\ at[a] \in 1..Len(Creates(g)) /\ g \in Groups /\ Len(Creates(g)) = 4
      /\ Creates(g)[at[a]] \in Tables
  <2>1. pc[a] = "create" /\ at[a] \in 1..Len(Creates(g))
    <3>1. pc[a] = "create"
      BY DEF Create
    <3> QED
      BY <3>1 DEF TypeOK
  <2>2. g \in Groups
    BY GroupType
  <2> QED
    BY <2>1, <2>2, CreatesType
<1>0. db \in SUBSET Things /\ \A x \in db : Thing("table", x.table) \in db
  BY DEF TypeOK, Typed
<1>2. /\ to \subseteq Things /\ db \subseteq to /\ Thing("table", Creates(g)[at[a]]) \in to
      /\ \A x \in to : Thing("table", x.table) \in to
  BY <1>0, <1>1, CreatedType
<1>3. /\ db' \subseteq Things /\ db \subseteq db' /\ \A x \in db' : Thing("table", x.table) \in db'
      /\ faults' \in Nat
  BY <1>2 DEF Create, TypeOK, Typed, Fault
<1>4. UNCHANGED <<process, starts, migrated, lock, retries, ensured, passes>>
  BY DEF Create
<1>5. FlagHolds'
  BY <1>3, <1>4, ReadyStays DEF FlagHolds
<1>6. CASE /\ db' = to
           /\ IF at[a] < Len(Creates(g))
                THEN at' = [at EXCEPT ![a] = @ + 1] /\ UNCHANGED pc
                ELSE at' = [at EXCEPT ![a] = 1] /\ pc' = [pc EXCEPT ![a] = "lock"]
  <2>1. TypeOK'
    <3>0. pc \in [Actors -> Places] /\ at \in [Actors -> Nat] /\ "lock" \in Places
      BY DEF TypeOK, Typed, Places
    <3>1. pc' \in [Actors -> Places] /\ at' \in [Actors -> Nat]
      <4>1. CASE at[a] < Len(Creates(g))
        BY <1>6, <3>0, <4>1
      <4>2. CASE ~(at[a] < Len(Creates(g)))
        BY <1>6, <3>0, <4>2
      <4> QED
        BY <4>1, <4>2
    <3>2. Typed'
      BY <1>3, <1>4, <3>1 DEF TypeOK, Typed
    <3>3. \A b \in Actors : pc'[b] = "migrate" <=> lock' = b
      BY <1>1, <1>4, <1>6 DEF TypeOK, Typed
    <3>4. \A b \in Actors : /\ pc'[b] = "create" => at'[b] \in 1..Len(Creates(Group(b)))
                            /\ pc'[b] = "migrate" => at'[b] \in 1..Len(Migrations(Group(b)))
      <4> TAKE b \in Actors
      <4>1. CASE b = a
        <5>1. CASE at[a] < Len(Creates(g))
          <6>1. pc'[b] = "create" /\ at'[b] = at[a] + 1 /\ Group(b) = g
            BY <1>1, <1>6, <4>1, <5>1 DEF TypeOK, Typed
          <6>2. at[a] \in Nat /\ at[a] >= 1 /\ at[a] < 4 /\ Len(Creates(Group(b))) = 4
            BY <1>1, <5>1, <6>1
          <6>3. at'[b] \in 1..Len(Creates(Group(b)))
            BY <6>1, <6>2
          <6> QED
            BY <6>1, <6>3
        <5>2. CASE ~(at[a] < Len(Creates(g)))
          BY <1>1, <1>6, <4>1, <5>2 DEF TypeOK, Typed
        <5> QED
          BY <5>1, <5>2
      <4>2. CASE b # a
        <5>1. pc'[b] = pc[b] /\ at'[b] = at[b]
          BY <1>6, <4>2 DEF TypeOK, Typed
        <5> QED
          BY <5>1 DEF TypeOK
      <4> QED
        BY <4>1, <4>2
    <3> QED
      BY <1>3, <3>2, <3>3, <3>4 DEF TypeOK
  <2>2. Progress'
    <3>1. ASSUME NEW b \in Actors, b # a
          PROVE  pc'[b] = pc[b] /\ at'[b] = at[b]
      BY <1>6, <3>1 DEF TypeOK, Typed
    <3>2. \A i \in 1..at[a] : Thing("table", Creates(g)[i]) \in db'
      BY <1>1, <1>2, <1>3, <1>6 DEF Progress
    <3>3. CASE at[a] < Len(Creates(g))
      <4>1. pc'[a] = "create" /\ at'[a] = at[a] + 1
        BY <1>1, <1>6, <3>3 DEF TypeOK, Typed
      <4>2. \A i \in 1..(at'[a] - 1) : Thing("table", Creates(g)[i]) \in db'
        BY <1>1, <3>2, <4>1
      <4> QED
        BY <1>3, <1>4, <3>1, <4>1, <4>2, ThereStays, GroupType DEF Progress
    <3>4. CASE at[a] = Len(Creates(g))
      <4>1. pc'[a] = "lock" /\ There(g)'
        BY <1>1, <1>6, <3>2, <3>4 DEF There, TypeOK, Typed
      <4> QED
        BY <1>3, <1>4, <3>1, <4>1, ThereStays, GroupType DEF Progress
    <3> QED
      BY <1>1, <3>3, <3>4
  <2> QED
    BY <1>5, <2>1, <2>2
<1>7. CASE Leave(a)
  <2>1. /\ pc' \in [Actors -> Places] /\ at' = at /\ pc'[a] \in {"idle", "connect"}
        /\ \A b \in Actors : b # a => pc'[b] = pc[b]
    BY <1>7 DEF Leave, TypeOK, Typed, Places
  <2>2. TypeOK'
    BY <1>1, <1>3, <1>4, <2>1 DEF TypeOK, Typed
  <2>3. Progress'
    BY <1>3, <1>4, <2>1, ThereStays, GroupType DEF Progress
  <2> QED
    BY <1>5, <2>2, <2>3
<1> QED
  BY <1>6, <1>7 DEF Create

LEMMA LockStep == ASSUME Inv, NEW a \in Actors, Lock(a) PROVE Inv'
<1> USE DEF Inv
<1>1. /\ pc[a] = "lock" /\ lock = Nobody /\ Group(a) \in Groups
      /\ UNCHANGED <<db, process, starts, faults, migrated, retries, passes>>
  BY GroupType DEF Lock
<1>2. \A b \in Actors : pc[b] # "migrate"
  BY <1>1, NobodyAssumption DEF TypeOK, Typed
<1>3. CASE migrated[Group(a)]
  <2>1. /\ pc' = [pc EXCEPT ![a] = IF a = Main THEN "idle" ELSE "connect"]
        /\ ensured' = [ensured EXCEPT ![a] = TRUE] /\ UNCHANGED <<at, lock>>
    BY <1>3 DEF Lock, Leave
  <2>2. TypeOK'
    BY <1>1, <1>2, <2>1 DEF TypeOK, Typed, Places
  <2>3. Progress'
    BY <1>1, <2>1 DEF Progress, There, TypeOK, Typed
  <2>4. FlagHolds'
    BY <1>1, <1>3, <2>1 DEF FlagHolds, Ready, TypeOK, Typed
  <2> QED
    BY <2>2, <2>3, <2>4
<1>4. CASE ~migrated[Group(a)]
  <2>1. /\ lock' = a /\ pc' = [pc EXCEPT ![a] = "migrate"] /\ at' = [at EXCEPT ![a] = 1]
        /\ UNCHANGED ensured
    BY <1>4 DEF Lock
  <2>2. Len(Migrations(Group(a))) \in Nat \ {0}
    BY <1>1, MigrationsType
  <2>3. TypeOK'
    <3>1. pc' \in [Actors -> Places] /\ at' \in [Actors -> Nat]
      BY <2>1 DEF TypeOK, Typed, Places
    <3>2. \A b \in Actors : pc'[b] = "migrate" <=> lock' = b
      BY <1>2, <2>1 DEF TypeOK, Typed
    <3>3. \A b \in Actors : /\ pc'[b] = "create" => at'[b] \in 1..Len(Creates(Group(b)))
                            /\ pc'[b] = "migrate" => at'[b] \in 1..Len(Migrations(Group(b)))
      BY <1>2, <2>1, <2>2 DEF TypeOK, Typed
    <3>4. Typed'
      BY <1>1, <2>1, <3>1 DEF TypeOK, Typed
    <3> QED
      BY <1>1, <3>2, <3>3, <3>4 DEF TypeOK
  <2>4. Progress'
    <3>1. There(Group(a)) /\ There(Group(a))'
      BY <1>1 DEF Progress, There
    <3>2. pc'[a] = "migrate" /\ at'[a] = 1 /\ ~migrated'[Group(a)]
      BY <1>1, <1>4, <2>1 DEF TypeOK, Typed
    <3>3. ASSUME NEW b \in Actors, b # a
          PROVE  pc'[b] = pc[b] /\ at'[b] = at[b] /\ pc[b] # "migrate"
      BY <1>2, <2>1, <3>3 DEF TypeOK, Typed
    <3> QED
      BY <1>1, <3>1, <3>2, <3>3 DEF Progress, There
  <2>5. FlagHolds'
    BY <1>1, <2>1 DEF FlagHolds, Ready
  <2> QED
    BY <2>3, <2>4, <2>5
<1> QED
  BY <1>3, <1>4
LEMMA MigrateStep == ASSUME Inv, NEW a \in Actors, Migrate(a) PROVE Inv'
<1> DEFINE g  == Group(a)
           to == db \cup {Migrations(g)[at[a]]}
<1> USE DEF Inv
<1>1. /\ pc[a] = "migrate" /\ lock = a /\ at[a] \in 1..Len(Migrations(g)) /\ g \in Groups
      /\ There(g) /\ ~migrated[g] /\ \A i \in 1..(at[a] - 1) : Migrations(g)[i] \in db
  <2>1. pc[a] = "migrate"
    BY DEF Migrate
  <2> QED
    BY <2>1, GroupType DEF TypeOK, Progress
<1>2. /\ Migrations(g)[at[a]] \in Things
      /\ Thing("table", Migrations(g)[at[a]].table) \in db
  BY <1>1, MigrationsType DEF There
<1>3. /\ db' \subseteq Things /\ db \subseteq db' /\ \A x \in db' : Thing("table", x.table) \in db'
      /\ db' \in {db, to} /\ faults' \in Nat
  <2>1. db' \in {db, to}
    BY DEF Migrate
  <2>2. faults' \in Nat
    BY DEF Migrate, Fault, TypeOK, Typed
  <2>3. db \subseteq Things /\ \A x \in db : Thing("table", x.table) \in db
    BY DEF TypeOK, Typed
  <2> QED
    BY <1>2, <2>1, <2>2, <2>3
<1>4. UNCHANGED <<process, starts, retries>>
  BY DEF Migrate
<1>5. CASE /\ db' = to /\ at[a] < Len(Migrations(g))
           /\ at' = [at EXCEPT ![a] = @ + 1]
           /\ UNCHANGED <<pc, migrated, lock, ensured, passes>>
  <2>1. at'[a] = at[a] + 1 /\ at' \in [Actors -> Nat] /\ Len(Migrations(g)) \in Nat
        /\ \A b \in Actors : b # a => at'[b] = at[b]
    BY <1>1, <1>5, MigrationsType DEF TypeOK, Typed
  <2>2. TypeOK'
    <3>1. Typed'
      BY <1>3, <1>4, <1>5, <2>1 DEF TypeOK, Typed
    <3>2. \A b \in Actors : /\ pc[b] = "create" => at'[b] \in 1..Len(Creates(Group(b)))
                            /\ pc[b] = "migrate" => at'[b] \in 1..Len(Migrations(Group(b)))
      BY <1>1, <1>5, <2>1 DEF TypeOK
    <3> QED
      BY <1>3, <1>5, <3>1, <3>2 DEF TypeOK
  <2>3. Progress'
    <3>1. \A i \in 1..(at'[a] - 1) : Migrations(g)[i] \in db'
      BY <1>1, <1>3, <1>5, <2>1
    <3> QED
      BY <1>1, <1>3, <1>5, <2>1, <3>1, ThereStays, GroupType DEF Progress
  <2>4. FlagHolds'
    BY <1>3, <1>5, ReadyStays DEF FlagHolds
  <2> QED
    BY <2>2, <2>3, <2>4
<1>6. ASSUME Leave(a), lock' = Nobody
      PROVE  /\ pc' \in [Actors -> Places] /\ at' = at
             /\ \A b \in Actors : pc'[b] \notin {"create", "lock", "migrate"} \/ pc'[b] = pc[b]
             /\ \A b \in Actors : pc'[b] # "migrate" /\ lock' # b
  <2>1. pc' \in [Actors -> Places] /\ at' = at /\ pc'[a] \in {"idle", "connect"}
        /\ \A b \in Actors : b # a => pc'[b] = pc[b]
    BY <1>6 DEF Leave, TypeOK, Typed, Places
  <2>2. \A b \in Actors : b # a => pc[b] # "migrate"
    BY <1>1 DEF TypeOK
  <2> QED
    BY <1>6, <2>1, <2>2, NobodyAssumption
<1>7. CASE /\ db' = to /\ ~(at[a] < Len(Migrations(g))) /\ Leave(a) /\ lock' = Nobody
           /\ migrated' = [migrated EXCEPT ![g] = TRUE]
           /\ ensured' = [ensured EXCEPT ![a] = TRUE]
           /\ passes' = [passes EXCEPT ![g] = @ + 1]
  <2>1. migrated' \in [Groups -> BOOLEAN] /\ ensured' \in [Actors -> BOOLEAN]
        /\ passes' \in [Groups -> Nat] /\ lock' = Nobody
    BY <1>1, <1>7 DEF TypeOK, Typed
  <2>2. TypeOK'
    BY <1>3, <1>4, <1>6, <1>7, <2>1 DEF TypeOK, Typed
  <2>3. Progress'
    BY <1>3, <1>6, <1>7, ThereStays, GroupType DEF Progress
  <2>4. FlagHolds'
    <3>1. Ready(g)'
      <4>1. \A i \in 1..Len(Migrations(g)) : Migrations(g)[i] \in db'
        BY <1>1, <1>3, <1>7, MigrationsType
      <4> QED
        BY <1>1, <1>3, <4>1 DEF Ready, There
    <3>2. passes[g] = 0
      BY <1>1 DEF FlagHolds
    <3>3. \A h \in Groups : h # g => migrated'[h] = migrated[h] /\ passes'[h] = passes[h]
      BY <1>7 DEF TypeOK, Typed
    <3>4. migrated'[g] /\ passes'[g] = 1
      BY <1>1, <1>7, <3>2 DEF TypeOK, Typed
    <3>5. \A b \in Actors : b # a => (ensured'[b] <=> ensured[b])
      BY <1>7 DEF TypeOK, Typed
    <3> QED
      BY <1>1, <1>3, <3>1, <3>3, <3>4, <3>5, ReadyStays, GroupType DEF FlagHolds
  <2> QED
    BY <2>2, <2>3, <2>4
<1>8. CASE Leave(a) /\ lock' = Nobody /\ UNCHANGED <<migrated, ensured, passes>>
  <2>1. TypeOK'
    BY <1>3, <1>4, <1>6, <1>8 DEF TypeOK, Typed
  <2>2. Progress'
    BY <1>3, <1>6, <1>8, ThereStays, GroupType DEF Progress
  <2>3. FlagHolds'
    BY <1>3, <1>8, ReadyStays DEF FlagHolds
  <2> QED
    BY <2>1, <2>2, <2>3
<1> QED
  BY <1>5, <1>7, <1>8 DEF Migrate

\* Every step keeps the invariant.
LEMMA StepInv == Inv /\ Asleep /\ [Next]_vars => Inv'
<1> SUFFICES ASSUME Inv, Asleep, [Next]_vars PROVE Inv'
  OBVIOUS
<1>0. Typed
  BY DEF Inv, TypeOK
<1>1. ASSUME NEW a \in Actors, Create(a) \/ Lock(a) \/ Migrate(a) PROVE Inv'
  BY <1>1, CreateStep, LockStep, MigrateStep
<1>2. ASSUME NEW c \in Connectors, StartConnector(c) PROVE Inv'
  <2>1. PICK p \in {"create", "connect"} : pc' = [pc EXCEPT ![c] = p]
    BY <1>2 DEF StartConnector, Build, Goes
  <2>2. /\ pc[c] # "migrate" /\ at' = [at EXCEPT ![c] = 1] /\ at'[c] = 1
        /\ ensured' = [ensured EXCEPT ![c] = FALSE]
        /\ UNCHANGED <<process, starts, faults, retries, setup>>
    BY <1>0, <1>2 DEF StartConnector, Build, Typed, Actors
  <2>3. faults' \in Nat /\ retries' \in [Connectors -> 0..RetryNumber]
    BY <1>0, <2>2 DEF Typed
  <2>4. p \in Places \ {"lock", "migrate"}
    BY DEF Places
  <2> QED
    BY <2>1, <2>2, <2>3, <2>4, QuietStep
<1>3. ASSUME NEW c \in Connectors, Connect(c) \/ Discover(c) \/ StopsRecording(c) PROVE Inv'
  <2>1. PICK p \in {"discover", "record", "failed"} : pc' = [pc EXCEPT ![c] = p]
    BY <1>3 DEF Connect, Discover, StopsRecording, Goes
  <2>2. pc[c] # "migrate" /\ UNCHANGED <<process, starts, at, retries, ensured, setup>>
    BY <1>3 DEF Connect, Discover, StopsRecording
  <2>3. faults' \in Nat /\ retries' \in [Connectors -> 0..RetryNumber]
    BY <1>0, <1>3, <2>2 DEF Typed, Connect, Discover, StopsRecording, Fault
  <2>4. p \in Places \ {"lock", "migrate"} /\ p # "create"
    BY DEF Places
  <2> QED
    BY <2>1, <2>2, <2>3, <2>4, QuietStep
<1>4. ASSUME NEW c \in Connectors, Retry(c) PROVE Inv'
  <2>1. PICK p \in {"create", "connect"} : pc' = [pc EXCEPT ![c] = p]
    BY <1>4 DEF Retry, Build, Goes
  <2>2. /\ pc[c] # "migrate" /\ at' = [at EXCEPT ![c] = 1] /\ at'[c] = 1
        /\ ensured' = [ensured EXCEPT ![c] = FALSE]
        /\ UNCHANGED <<process, starts, faults, setup>>
    BY <1>0, <1>4 DEF Retry, Build, Typed, Actors
  <2>3. faults' \in Nat /\ retries' \in [Connectors -> 0..RetryNumber]
    <3>1. PICK n \in {retries[c] + 1, 1} :
            n <= RetryNumber /\ retries' = [retries EXCEPT ![c] = n]
      BY <1>4 DEF Retry
    <3>2. retries[c] \in Nat /\ RetryNumber \in Nat
      BY <1>0, SetupBoundsAssumption DEF Typed
    <3>3. n \in 0..RetryNumber
      BY <3>1, <3>2
    <3> QED
      BY <1>0, <2>2, <3>1, <3>3 DEF Typed
  <2>4. p \in Places \ {"lock", "migrate"}
    BY DEF Places
  <2> QED
    BY <2>1, <2>2, <2>3, <2>4, QuietStep
<1>5. ASSUME NEW c \in Connectors, GiveUp(c) PROVE Inv'
  BY <1>0, <1>5, DownStep DEF GiveUp, Typed
<1>6. CASE Crash
  <2>1. Down /\ faults' \in Nat
    BY <1>0, <1>6 DEF Crash, Fault, Typed
  <2> QED
    BY <2>1, DownStep
<1>7. CASE StartAgain
  <2> USE DEF Inv, setup
  <2>1. /\ process' = "up" /\ starts' \in Nat /\ pc' = [pc EXCEPT ![Main] = "create"]
        /\ UNCHANGED <<faults, at, retries, ensured, setup>>
    BY <1>0, <1>7 DEF StartAgain, Typed
  <2>2. Main \in Actors /\ at[Main] = 1 /\ pc[Main] = "idle"
    BY <1>7 DEF Asleep, StartAgain, Actors
  <2>3. TypeOK'
    <3>1. pc' \in [Actors -> Places] /\ \A a \in Actors : a # Main => pc'[a] = pc[a]
      BY <1>0, <2>1, <2>2 DEF Typed, Places
    <3>2. Typed'
      BY <1>0, <2>1, <3>1 DEF Typed
    <3>3. pc'[Main] = "create" /\ at'[Main] \in 1..Len(Creates(Group(Main)))
      <4>1. Len(Creates(Group(Main))) = 4
        BY <2>2, CreatesType, GroupType
      <4> QED
        BY <1>0, <2>1, <2>2, <4>1 DEF Typed
    <3>4. \A a \in Actors : pc'[a] = "migrate" <=> lock' = a
      BY <2>1, <2>2, <3>1, <3>3 DEF TypeOK
    <3> QED
      BY <2>1, <3>1, <3>2, <3>3, <3>4 DEF TypeOK
  <2>4. Progress'
    BY <1>0, <2>1, <2>2 DEF Progress, There, Typed
  <2>5. FlagHolds'
    BY <2>1 DEF FlagHolds, Ready
  <2> QED
    BY <2>3, <2>4, <2>5
<1>8. CASE UNCHANGED vars
  BY <1>8 DEF vars, Inv, TypeOK, Typed, Progress, There, FlagHolds, Ready
<1> QED
  BY <1>1, <1>2, <1>3, <1>4, <1>5, <1>6, <1>7, <1>8 DEF Next

LEMMA StepAsleep == Typed /\ Asleep /\ [Next]_vars => Asleep'
<1> SUFFICES ASSUME Typed, Asleep, [Next]_vars, process' = "down"
             PROVE  \A a \in Actors : pc'[a] = "idle" /\ at'[a] = 1
  BY DEF Asleep
<1>1. CASE Crash \/ \E c \in Connectors : GiveUp(c)
  BY <1>1 DEF Crash, GiveUp, Down
<1>2. CASE UNCHANGED vars
  BY <1>2 DEF vars, Asleep
<1>3. ASSUME process = "down", NEW a \in Actors, Create(a) \/ Lock(a) \/ Migrate(a) PROVE FALSE
  BY <1>3 DEF Asleep, Create, Lock, Migrate
<1>4. ASSUME NEW a \in Actors, Create(a) \/ Lock(a) \/ Migrate(a) PROVE process' = process
  BY <1>4 DEF Create, Lock, Migrate
<1>5. ASSUME NEW c \in Connectors, StartConnector(c) \/ Connect(c) \/ Discover(c)
                                   \/ StopsRecording(c) \/ Retry(c)
      PROVE  FALSE
  <2>1. process = "down"
    BY <1>5 DEF StartConnector, Connect, Discover, StopsRecording, Retry
  <2>2. pc[c] = "idle" /\ process # "up"
    BY <2>1 DEF Asleep, Actors
  <2> QED
    BY <1>5, <2>2 DEF StartConnector, Connect, Discover, StopsRecording, Retry
<1>6. ~StartAgain
  BY DEF StartAgain
<1> QED
  BY <1>1, <1>2, <1>3, <1>4, <1>5, <1>6 DEF Next

LEMMA Invariance == Spec => []Inv
<1>1. Init => Asleep
  BY DEF Init, Asleep
<1>2. Inv => Typed
  BY DEF Inv, TypeOK
<1> QED
  BY <1>1, <1>2, InitInv, StepInv, StepAsleep, PTL DEF Spec

\* The state keeps its shape: a migration runs under the lock, and the database
\* has no interval or column without its table.
THEOREM TypeCorrect == Spec => []TypeOK
<1>1. Inv => TypeOK
  BY DEF Inv
<1> QED
  BY <1>1, Invariance, PTL

\* A set-up without an error leaves every table of its group there and
\* migrated, for any number of connectors, failures and starts.
THEOREM EnsuredMeansReadyHolds == Spec => []EnsuredMeansReady
<1>1. Inv => EnsuredMeansReady
  BY GroupType DEF Inv, FlagHolds, EnsuredMeansReady
<1> QED
  BY <1>1, Invariance, PTL

\* A process completes one pass over the migrations of a group, and no
\* connector is in the middle of another one afterwards.
THEOREM OncePerProcessHolds == Spec => []OncePerProcess
<1>1. Inv => OncePerProcess
  BY GroupType DEF Inv, TypeOK, Progress, FlagHolds, OncePerProcess
<1> QED
  BY <1>1, Invariance, PTL
===========================================================================
