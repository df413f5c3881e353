------------------------- MODULE ClientMetricsProofs -------------------------
(***************************************************************************)
(* ClientMetrics implements MetricsLedger: for any number of servers,      *)
(* reports, toggles and hours, and whatever fails, a count is added to the *)
(* table at most once.                                                     *)
(***************************************************************************)
EXTENDS ClientMetrics, FiniteSetTheorems, WellFoundedInduction, TLAPS

\* Rows are filled with the counts of one report.
LEMMA CollapsedType ==
    ASSUME NEW rows \in Rows, NEW r \in Reports, NEW h \in Hours, NEW T \in SUBSET Toggles
    PROVE  /\ Collapsed(rows, r, h, T) \in Rows
           /\ \A x : Contains(Collapsed(rows, r, h, T), x) =>
                        Contains(rows, x) \/ x \in {r} \X T
BY DEF Collapsed, Rows, Key, Items, Contains

\* Rows keep what they hold, and a report adds all of its counts.
LEMMA CollapsedHolds ==
    ASSUME NEW rows \in Rows, NEW r \in Reports, NEW h \in Hours, NEW T \in SUBSET Toggles,
           NEW x, Contains(rows, x) \/ x \in {r} \X T
    PROVE  Contains(Collapsed(rows, r, h, T), x)
<1>1. CASE Contains(rows, x)
  BY <1>1 DEF Collapsed, Rows, Key, Contains
<1>2. CASE x \in {r} \X T
  <2>1. PICK t \in T : x = <<r, t>>
    BY <1>2
  <2>2. <<t, h>> \in Key /\ <<t, h>>[1] = t /\ <<t, h>>[2] = h
    BY DEF Key
  <2>3. Collapsed(rows, r, h, T)[<<t, h>>] = rows[<<t, h>>] \cup {<<r, t>>}
    BY <2>2 DEF Collapsed
  <2> QED BY <2>1, <2>2, <2>3 DEF Contains
<1> QED BY <1>1, <1>2

\* Positions of rows are natural numbers.
LEMMA OrderedType ==
    ASSUME NEW rows \in Rows, NEW ord \in Order, NEW h \in Hours, NEW T \in SUBSET Toggles
    PROVE  Ordered(ord, rows, h, T) \in Order
<1>1. \A t : IsFiniteSet(HoursIn(rows, t))
  BY MetricsAssumption, FS_Subset DEF HoursIn
<1>2. \A t : Cardinality(HoursIn(rows, t)) + 1 \in Nat
  BY <1>1, FS_CardinalityType
<1> QED BY <1>2 DEF Ordered, Order

\* There is nothing in the empty buffer.
LEMMA NoRowsType ==
    /\ NoRows \in Rows
    /\ NoOrder \in Order
    /\ \A x : ~Contains(NoRows, x)
BY DEF NoRows, NoOrder, Rows, Order, Contains

\* A transaction takes its rows from the buffer or from one report.
LEMMA InsertType ==
    ASSUME NEW s \in Servers, NEW rows \in Rows, NEW ord \in Order
    PROVE  [server |-> s, rows |-> rows, order |-> ord, locked |-> {}] \in Insert
BY DEF Insert

-----------------------------------------------------------------------------
\* The initial state has its types.
LEMMA TypeInit == Init => TypeOK
BY NoRowsType DEF Init, TypeOK

\* Every step keeps the types.
LEMMA TypeStep == TypeOK /\ [Next]_vars => TypeOK'
<1> SUFFICES ASSUME TypeOK, [Next]_vars PROVE TypeOK'
  OBVIOUS
<1> USE DEF TypeOK
<1>1. ASSUME NEW s \in Servers, NEW r \in Reports, NEW h \in Hours,
             NEW T \in SUBSET Toggles, Register(s, r, h, T)
      PROVE  TypeOK'
  <2>1. taken' \in SUBSET Items
    BY <1>1 DEF Register, Items
  <2>2. CASE s \in Batching
    BY <1>1, <2>1, <2>2, CollapsedType, OrderedType DEF Register
  <2>3. CASE s \notin Batching
    BY <1>1, <2>1, <2>3, CollapsedType, OrderedType, NoRowsType, InsertType DEF Register
  <2> QED BY <2>2, <2>3
<1>2. ASSUME NEW s \in Servers, BulkAdd(s) PROVE TypeOK'
  BY <1>2, NoRowsType, InsertType DEF BulkAdd, Emptied
<1>3. ASSUME NEW s \in Servers, Stop(s) PROVE TypeOK'
  BY <1>3, NoRowsType DEF Stop, HeldBy
<1>4. ASSUME NEW i \in inserts, LockRow(i) PROVE TypeOK'
  BY <1>4 DEF LockRow, Insert
<1>5. ASSUME NEW i \in inserts, Commit(i) PROVE TypeOK'
  BY <1>5 DEF Commit
<1>6. ASSUME NEW i \in inserts, Abort(i) PROVE TypeOK'
  BY <1>6 DEF Abort
<1>7. CASE UNCHANGED vars
  BY <1>7 DEF vars
<1> QED BY <1>1, <1>2, <1>3, <1>4, <1>5, <1>6, <1>7 DEF Next, Server, Database

\* Buffers, statements and the table hold what their types say.
THEOREM MetricsTypeCorrect == Spec => []TypeOK
BY TypeInit, TypeStep, PTL DEF Spec

-----------------------------------------------------------------------------
\* A count on its way to the table is taken and not yet in it, and it is on
\* its way in one place only.
InBuffer(s, x) == Contains(buffer[s], x)
Sent(i, x) == Contains(i.rows, x)

OnTheWay ==
    /\ \A x : Held(x) => x \in taken
    /\ \A x \in Items : Held(x) => counted[x] = 0
    /\ \A x : \A s, u \in Servers : InBuffer(s, x) /\ InBuffer(u, x) => s = u
    /\ \A x : \A s \in Servers, i \in inserts : ~(InBuffer(s, x) /\ Sent(i, x))
    /\ \A x : \A i, j \in inserts : Sent(i, x) /\ Sent(j, x) => i = j
    /\ \A x \in Items \ taken : counted[x] = 0

IInv == TypeOK /\ OnTheWay

\* Nothing is on the way at the start.
LEMMA OnTheWayInit == Init => OnTheWay
BY NoRowsType DEF Init, OnTheWay, Held, InBuffer, Sent

\* A step that only forgets: what is held afterwards was held there before.
LEMMA Forgets ==
    ASSUME IInv, UNCHANGED <<taken, counted>>,
           \A s \in Servers : \A x : InBuffer(s, x)' => InBuffer(s, x),
           inserts' \subseteq inserts
    PROVE  OnTheWay'
BY DEF IInv, OnTheWay, Held, InBuffer, Sent

\* A report brings counts that were nowhere before.
LEMMA RegisterKeeps ==
    ASSUME IInv, NEW s \in Servers, NEW r \in Reports, NEW h \in Hours,
           NEW T \in SUBSET Toggles, Register(s, r, h, T)
    PROVE  OnTheWay'
<1> DEFINE new == {r} \X T
<1>1. taken' = taken \cup new /\ counted' = counted
  BY DEF Register
<1>2. \A x \in new : x \notin taken /\ ~Held(x)
  BY DEF Register, IInv, OnTheWay
<1>3. \A x \in Items : x \in new => counted[x] = 0
  BY <1>2 DEF IInv, OnTheWay
<1>4. CASE s \in Batching
  <2>1. /\ inserts' = inserts
        /\ \A u \in Servers : \A x : InBuffer(u, x)' => InBuffer(u, x) \/ (u = s /\ x \in new)
    BY <1>4, CollapsedType DEF Register, InBuffer, IInv, TypeOK
  <2> QED BY <1>1, <1>2, <1>3, <2>1 DEF IInv, OnTheWay, Held, InBuffer, Sent
<1>5. CASE s \notin Batching
  <2> DEFINE i == [server |-> s, rows |-> Collapsed(NoRows, r, h, T),
                   order |-> Ordered(NoOrder, NoRows, h, T), locked |-> {}]
  <2>1. /\ inserts' = inserts \cup {i}
        /\ buffer' = buffer
        /\ \A x : Sent(i, x) => x \in new
    <3>1. \A x : Contains(Collapsed(NoRows, r, h, T), x) => x \in new
      BY CollapsedType, NoRowsType
    <3>2. i.rows = Collapsed(NoRows, r, h, T)
      OBVIOUS
    <3> QED BY <1>5, <3>1, <3>2 DEF Register, Sent
  <2> HIDE DEF i
  <2> QED BY <1>1, <1>2, <1>3, <2>1 DEF IInv, OnTheWay, Held, InBuffer, Sent
<1> QED BY <1>4, <1>5

\* bulkAdd moves the counts of a buffer to a statement.
LEMMA BulkAddKeeps ==
    ASSUME IInv, NEW s \in Servers, BulkAdd(s)
    PROVE  OnTheWay'
<1> DEFINE i == [server |-> s, rows |-> buffer[s], order |-> order[s], locked |-> {}]
<1>1. /\ inserts' = inserts \cup {i}
      /\ \A x : Sent(i, x) <=> InBuffer(s, x)
  <2>1. i.rows = buffer[s]
    OBVIOUS
  <2> QED BY <2>1 DEF BulkAdd, Sent, InBuffer
<1> HIDE DEF i
<1>2. \A u \in Servers : \A x : InBuffer(u, x)' => u # s /\ InBuffer(u, x)
  BY NoRowsType DEF BulkAdd, Emptied, InBuffer, IInv, TypeOK
<1>3. taken' = taken /\ counted' = counted
  BY DEF BulkAdd
<1> QED BY <1>1, <1>2, <1>3 DEF IInv, OnTheWay, Held, InBuffer, Sent

\* A statement that locks a row holds the same counts as before.
LEMMA LockRowKeeps ==
    ASSUME IInv, NEW i \in inserts, LockRow(i)
    PROVE  OnTheWay'
<1>1. PICK k \in Key : inserts' = (inserts \ {i}) \cup {[i EXCEPT !.locked = @ \cup {k}]}
  BY DEF LockRow
<1> DEFINE j == [i EXCEPT !.locked = @ \cup {k}]
<1>0. j.rows = i.rows
  BY DEF IInv, TypeOK, Insert
<1>2. /\ taken' = taken
      /\ counted' = counted
      /\ buffer' = buffer
  BY DEF LockRow
<1>3. \A x : Sent(j, x) <=> Sent(i, x)
  BY <1>0 DEF Sent
<1> HIDE DEF j
<1>4. inserts' = (inserts \ {i}) \cup {j}
  BY <1>1 DEF j
<1> QED BY <1>2, <1>3, <1>4 DEF IInv, OnTheWay, Held, InBuffer, Sent

\* A statement that ends adds what no other holds.
LEMMA CommitKeeps ==
    ASSUME IInv, NEW i \in inserts, Commit(i)
    PROVE  OnTheWay'
<1>1. /\ taken' = taken
      /\ buffer' = buffer
      /\ inserts' = inserts \ {i}
  BY DEF Commit
<1>2. \A x \in Items : ~Sent(i, x) => counted'[x] = counted[x]
  BY DEF Commit, Sent, IInv, TypeOK
<1>3. \A x : Sent(i, x) => x \in taken
  BY DEF IInv, OnTheWay, Held, Sent
<1>4. \A x : Held(x)' => Held(x) /\ ~Sent(i, x)
  BY <1>1 DEF IInv, OnTheWay, Held, InBuffer, Sent
<1> QED BY <1>1, <1>2, <1>3, <1>4 DEF IInv, OnTheWay, InBuffer, Sent

\* Every step keeps the counts apart.
LEMMA OnTheWayStep == IInv /\ [Next]_vars => OnTheWay'
<1> SUFFICES ASSUME IInv, [Next]_vars PROVE OnTheWay'
  OBVIOUS
<1>1. ASSUME NEW s \in Servers, Stop(s) PROVE OnTheWay'
  <2>1. \A u \in Servers : \A x : InBuffer(u, x)' => InBuffer(u, x)
    BY <1>1, NoRowsType DEF Stop, InBuffer, IInv, TypeOK
  <2> QED BY <1>1, <2>1, Forgets DEF Stop
<1>2. ASSUME NEW i \in inserts, Abort(i) PROVE OnTheWay'
  BY <1>2, Forgets DEF Abort, InBuffer
<1>3. CASE UNCHANGED vars
  BY <1>3, Forgets DEF vars, InBuffer
<1> QED BY <1>1, <1>2, <1>3, RegisterKeeps, BulkAddKeeps, LockRowKeeps, CommitKeeps
        DEF Next, Server, Database

\* The strengthened invariant holds.
LEMMA IInvCorrect == Spec => []IInv
<1>1. Init => IInv
  BY TypeInit, OnTheWayInit DEF IInv
<1>2. IInv /\ [Next]_vars => IInv'
  BY TypeStep, OnTheWayStep DEF IInv
<1> QED BY <1>1, <1>2, PTL DEF Spec

-----------------------------------------------------------------------------
\* A step of the server is a step of the ledger or changes nothing of it.
LEMMA LedgerStep == IInv /\ [Next]_vars => [Ledger!Next]_Ledger!vars
<1> SUFFICES ASSUME IInv, Next PROVE Ledger!Next \/ UNCHANGED Ledger!vars
  BY DEF vars, Ledger!vars
<1>1. ASSUME NEW s \in Servers, NEW r \in Reports, NEW h \in Hours,
             NEW T \in SUBSET Toggles, Register(s, r, h, T)
      PROVE  Ledger!Next
  <2>1. {r} \X T \in SUBSET Items
    BY DEF Items
  <2>2. Ledger!Take({r} \X T)
    BY <1>1 DEF Register, Ledger!Take
  <2> QED BY <2>1, <2>2 DEF Ledger!Next
<1>2. ASSUME NEW i \in inserts, Commit(i) PROVE Ledger!Next
  <2> DEFINE S == {x \in Items : Sent(i, x)}
  <2>1. S \subseteq taken /\ \A x \in S : counted[x] = 0
    BY DEF IInv, OnTheWay, Held, Sent
  <2>2. counted' = [x \in Items |-> IF x \in S THEN 1 ELSE counted[x]]
    BY <1>2, <2>1 DEF Commit, Sent, IInv, TypeOK
  <2>3. Ledger!Count(S)
    BY <1>2, <2>1, <2>2 DEF Commit, Ledger!Count
  <2> QED BY <2>3 DEF Ledger!Next
<1>3. ASSUME NEW s \in Servers, BulkAdd(s) \/ Stop(s) PROVE UNCHANGED Ledger!vars
  BY <1>3 DEF BulkAdd, Stop, Ledger!vars
<1>4. ASSUME NEW i \in inserts, LockRow(i) \/ Abort(i) PROVE UNCHANGED Ledger!vars
  BY <1>4 DEF LockRow, Abort, Ledger!vars
<1> QED BY <1>1, <1>2, <1>3, <1>4 DEF Next, Server, Database

\* The pipeline of buffers and statements implements the ledger: no count is
\* added twice, and none that no client reported.
THEOREM LedgerCorrect == Spec => ImplementsLedger
<1>1. Init => Ledger!Init
  BY DEF Init, Ledger!Init
<1> QED BY <1>1, IInvCorrect, LedgerStep, PTL DEF Spec, ImplementsLedger, Ledger!Spec

-----------------------------------------------------------------------------
\* Nothing is thrown away that no client reported.
Accounted == NothingLost /\ dropped \subseteq taken

\* A report's counts are held by its server.
LEMMA RegisterAccounts ==
    ASSUME IInv, Accounted, NEW s \in Servers, NEW r \in Reports, NEW h \in Hours,
           NEW T \in SUBSET Toggles, Register(s, r, h, T)
    PROVE  Accounted'
<1> DEFINE new == {r} \X T
<1>1. /\ taken' = taken \cup new
      /\ counted' = counted
      /\ dropped' = dropped
  BY DEF Register
<1>2. \A x \in new : x \notin taken
  BY DEF Register
<1>3. \A x : Held(x)' <=> Held(x) \/ x \in new
  <2>1. CASE s \in Batching
    <3>1. /\ inserts' = inserts
          /\ \A u \in Servers : \A x : InBuffer(u, x)' <=> InBuffer(u, x) \/ (u = s /\ x \in new)
      BY <2>1, CollapsedType, CollapsedHolds DEF Register, InBuffer, IInv, TypeOK
    <3> QED BY <3>1 DEF Held, InBuffer
  <2>2. CASE s \notin Batching
    <3> DEFINE i == [server |-> s, rows |-> Collapsed(NoRows, r, h, T),
                     order |-> Ordered(NoOrder, NoRows, h, T), locked |-> {}]
    <3>1. \A x : Contains(Collapsed(NoRows, r, h, T), x) <=> x \in new
      BY CollapsedType, CollapsedHolds, NoRowsType
    <3>2. i.rows = Collapsed(NoRows, r, h, T)
      OBVIOUS
    <3>3. inserts' = inserts \cup {i} /\ buffer' = buffer
      BY <2>2 DEF Register
    <3>4. \A x : Contains(i.rows, x) <=> x \in new
      BY <3>1, <3>2
    <3> HIDE DEF i
    <3> QED BY <3>3, <3>4 DEF Held
  <2> QED BY <2>1, <2>2
<1>4. \A x \in dropped : x \notin new
  BY <1>2 DEF Accounted
<1> QED BY <1>1, <1>3, <1>4 DEF Accounted, NothingLost

\* A step that only moves counts between buffers and statements.
LEMMA MovesAccount ==
    ASSUME Accounted, UNCHANGED <<taken, counted, dropped>>, \A x : Held(x)' <=> Held(x)
    PROVE  Accounted'
BY DEF Accounted, NothingLost

\* bulkAdd moves the counts of a buffer to a statement.
LEMMA BulkAddAccounts ==
    ASSUME IInv, Accounted, NEW s \in Servers, BulkAdd(s)
    PROVE  Accounted'
<1> DEFINE i == [server |-> s, rows |-> buffer[s], order |-> order[s], locked |-> {}]
<1>1. inserts' = inserts \cup {i} /\ \A x : Sent(i, x) <=> InBuffer(s, x)
  <2>1. i.rows = buffer[s]
    OBVIOUS
  <2> QED BY <2>1 DEF BulkAdd, Sent, InBuffer
<1> HIDE DEF i
<1>2. \A u \in Servers : \A x : InBuffer(u, x)' <=> u # s /\ InBuffer(u, x)
  BY NoRowsType DEF BulkAdd, Emptied, InBuffer, IInv, TypeOK
<1>3. \A x : Held(x)' <=> Held(x)
  BY <1>1, <1>2 DEF Held, InBuffer, Sent
<1> QED BY <1>3, MovesAccount DEF BulkAdd

\* A statement that locks a row holds the same counts as before.
LEMMA LockRowAccounts ==
    ASSUME IInv, Accounted, NEW i \in inserts, LockRow(i)
    PROVE  Accounted'
<1>1. PICK k \in Key : inserts' = (inserts \ {i}) \cup {[i EXCEPT !.locked = @ \cup {k}]}
  BY DEF LockRow
<1> DEFINE j == [i EXCEPT !.locked = @ \cup {k}]
<1>2. j.rows = i.rows
  BY DEF IInv, TypeOK, Insert
<1> HIDE DEF j
<1>3. inserts' = (inserts \ {i}) \cup {j}
  BY <1>1 DEF j
<1>4. \A x : Held(x)' <=> Held(x)
  BY <1>2, <1>3 DEF LockRow, Held
<1> QED BY <1>4, MovesAccount DEF LockRow

\* A statement that ends puts its counts into the table.
LEMMA CommitAccounts ==
    ASSUME IInv, Accounted, NEW i \in inserts, Commit(i)
    PROVE  Accounted'
<1>1. /\ taken' = taken
      /\ dropped' = dropped
      /\ buffer' = buffer
      /\ inserts' = inserts \ {i}
  BY DEF Commit
<1>2. \A x \in Items : counted'[x] = IF Sent(i, x) THEN counted[x] + 1 ELSE counted[x]
  BY DEF Commit, Sent
<1>3. \A x : Sent(i, x) => Held(x)
  BY DEF Sent, Held
<1>4. \A x \in Items : Held(x) => counted[x] = 0
  BY DEF IInv, OnTheWay
<1>5. \A x : Held(x)' => Held(x)
  BY <1>1 DEF Held
<1>6. \A x : Held(x) => Held(x)' \/ Sent(i, x)
  BY <1>1 DEF Held, Sent
<1>7. taken \subseteq Items
  BY DEF IInv, TypeOK
<1> QED BY <1>1, <1>2, <1>3, <1>4, <1>5, <1>6, <1>7 DEF Accounted, NothingLost

\* A statement that fails, or a server that stops, throws away what it held,
\* and nobody else holds that.
LEMMA LossAccounts ==
    ASSUME IInv, Accounted, NEW S \in SUBSET Items, UNCHANGED <<taken, counted>>,
           dropped' = dropped \cup S, \A x \in S : Held(x),
           \A x \in Items : Held(x)' <=> Held(x) /\ x \notin S
    PROVE  Accounted'
<1>1. \A x \in S : x \in taken /\ counted[x] = 0
  BY DEF IInv, OnTheWay
<1>2. taken \subseteq Items
  BY DEF IInv, TypeOK
<1> QED BY <1>1, <1>2 DEF Accounted, NothingLost

\* Every step accounts for what it does with a count.
LEMMA AccountedStep == IInv /\ Accounted /\ [Next]_vars => Accounted'
<1> SUFFICES ASSUME IInv, Accounted, [Next]_vars PROVE Accounted'
  OBVIOUS
<1>1. ASSUME NEW s \in Servers, Stop(s) PROVE Accounted'
  <2>1. \A u \in Servers : \A x : InBuffer(u, x)' <=> u # s /\ InBuffer(u, x)
    BY <1>1, NoRowsType DEF Stop, InBuffer, IInv, TypeOK
  <2>2. inserts' = {i \in inserts : i.server # s}
    BY <1>1 DEF Stop
  <2>3. \A x \in HeldBy(s) : Held(x)
    BY DEF HeldBy, Held
  <2>4. ASSUME NEW x \in Items PROVE Held(x)' <=> Held(x) /\ x \notin HeldBy(s)
    <3>1. Held(x)' => Held(x)
      BY <2>1, <2>2 DEF Held, InBuffer
    <3>2. Held(x)' => x \notin HeldBy(s)
      BY <2>1, <2>2 DEF HeldBy, Held, InBuffer, Sent, IInv, OnTheWay
    <3>3. Held(x) /\ x \notin HeldBy(s) => Held(x)'
      BY <2>1, <2>2 DEF HeldBy, Held, InBuffer
    <3> QED BY <3>1, <3>2, <3>3
  <2>5. HeldBy(s) \in SUBSET Items
    BY DEF HeldBy
  <2> QED BY <1>1, <2>3, <2>4, <2>5, LossAccounts DEF Stop
<1>2. ASSUME NEW i \in inserts, Abort(i) PROVE Accounted'
  <2> DEFINE S == {x \in Items : Sent(i, x)}
  <2>1. /\ UNCHANGED <<taken, counted>>
        /\ dropped' = dropped \cup S
        /\ inserts' = inserts \ {i}
        /\ buffer' = buffer
    BY <1>2 DEF Abort, Sent
  <2>2. \A x \in S : Held(x)
    BY DEF Held, Sent
  <2>3. \A x \in Items : Held(x)' <=> Held(x) /\ x \notin S
    BY <2>1 DEF Held, InBuffer, Sent, IInv, OnTheWay
  <2> QED BY <2>1, <2>2, <2>3, LossAccounts
<1>3. CASE UNCHANGED vars
  BY <1>3, MovesAccount DEF vars, Held
<1> QED BY <1>1, <1>2, <1>3, RegisterAccounts, BulkAddAccounts, LockRowAccounts, CommitAccounts
        DEF Next, Server, Database

\* Every count that a client reported is in the table, on its way there, or
\* went down with a statement or a server, however servers interleave.
THEOREM LossCorrect == Spec => []NothingLost
<1>1. Init => Accounted
  BY DEF Init, Accounted, NothingLost
<1>2. Accounted => NothingLost
  BY DEF Accounted
<1> QED BY <1>1, <1>2, IInvCorrect, AccountedStep, PTL DEF Spec

-----------------------------------------------------------------------------
\* The sort does not look at the hour.  It is total where all rows are of one.
OneHour == \A g, h \in Hours : g = h
BoundedToggles == \E n \in Nat : Toggles \subseteq 0..n

\* A statement locks its rows in the order of their toggles.
LocksInOrder == \A i \in inserts : \A k \in i.locked, l \in Unlocked(i) : k[1] < l[1]

\* A statement that is new has locked nothing.
LEMMA NewInOrder ==
    ASSUME LocksInOrder, NEW i, i.locked = {}, inserts' = inserts \cup {i}
    PROVE  LocksInOrder'
BY DEF LocksInOrder, Unlocked

\* The row that is locked next comes before those that are left.
LEMMA LockRowInOrder ==
    ASSUME OneHour, TypeOK, LocksInOrder, NEW i \in inserts, LockRow(i)
    PROVE  LocksInOrder'
<1>1. PICK k \in Key : /\ IsNext(i, k)
                       /\ inserts' = (inserts \ {i}) \cup {[i EXCEPT !.locked = @ \cup {k}]}
  BY DEF LockRow
<1> DEFINE j == [i EXCEPT !.locked = @ \cup {k}]
<1>2. j.rows = i.rows /\ j.locked = i.locked \cup {k}
  BY DEF TypeOK, Insert
<1> HIDE DEF j
<1>3. inserts' = (inserts \ {i}) \cup {j}
  BY <1>1 DEF j
<1>4. Unlocked(j) = Unlocked(i) \ {k}
  BY <1>2 DEF Unlocked
<1>5. \A l \in Unlocked(i) \ {k} : k[1] < l[1]
  <2> SUFFICES ASSUME NEW l \in Unlocked(i) \ {k} PROVE k[1] < l[1]
    OBVIOUS
  <2>1. Before(i, k, l)
    BY <1>1 DEF IsNext
  <2>2. k[1] # l[1]
    BY DEF Unlocked, Key, OneHour
  <2> QED BY <2>1, <2>2 DEF Before
<1>6. \A m \in j.locked, l \in Unlocked(j) : m[1] < l[1]
  BY <1>2, <1>4, <1>5 DEF LocksInOrder
<1>7. \A n \in inserts' : (\A m \in n.locked, l \in Unlocked(n) : m[1] < l[1])
  BY <1>3, <1>6 DEF LocksInOrder
<1> QED BY <1>7 DEF LocksInOrder, Unlocked

\* Every step keeps the order of the locks.
LEMMA LocksInOrderStep == OneHour /\ TypeOK /\ LocksInOrder /\ [Next]_vars => LocksInOrder'
<1> SUFFICES ASSUME OneHour, TypeOK, LocksInOrder, [Next]_vars PROVE LocksInOrder'
  OBVIOUS
<1>1. ASSUME inserts' \subseteq inserts PROVE LocksInOrder'
  BY <1>1 DEF LocksInOrder, Unlocked
<1>2. ASSUME NEW s \in Servers, NEW r \in Reports, NEW h \in Hours,
             NEW T \in SUBSET Toggles, Register(s, r, h, T)
      PROVE  LocksInOrder'
  <2>1. CASE s \in Batching
    BY <1>1, <1>2, <2>1 DEF Register
  <2>2. CASE s \notin Batching
    BY <1>2, <2>2, NewInOrder DEF Register
  <2> QED BY <2>1, <2>2
<1>3. ASSUME NEW s \in Servers, BulkAdd(s) PROVE LocksInOrder'
  BY <1>3, NewInOrder DEF BulkAdd
<1>4. ASSUME NEW s \in Servers, Stop(s) PROVE LocksInOrder'
  BY <1>1, <1>4 DEF Stop
<1>5. ASSUME NEW i \in inserts, Commit(i) \/ Abort(i) PROVE LocksInOrder'
  BY <1>1, <1>5 DEF Commit, Abort
<1>6. CASE UNCHANGED vars
  BY <1>1, <1>6 DEF vars
<1> QED BY <1>2, <1>3, <1>4, <1>5, <1>6, LockRowInOrder DEF Next, Server, Database

\* A set of natural numbers that has none above all others is not bounded.
LEMMA Ascending ==
    ASSUME NEW K \in SUBSET Nat, NEW n \in Nat, K \subseteq 0..n,
           \A t \in K : \E u \in K : t < u
    PROVE  K = {}
<1> DEFINE below == {n - t : t \in K}
<1> SUFFICES ASSUME K # {} PROVE FALSE
  OBVIOUS
<1>1. below \in SUBSET Nat
  OBVIOUS
<1>2. below # {}
  OBVIOUS
<1> HIDE DEF below
<1>3. PICK d \in below : \A e \in below : ~ (<<e, d>> \in OpToRel(<, Nat))
  BY <1>1, <1>2, NatLessThanWellFounded, WFMin
<1>8. \A e \in below : ~ (e < d)
  BY <1>1, <1>3 DEF OpToRel
<1> USE DEF below
<1>4. PICK t \in K : d = n - t
  BY <1>3
<1>5. PICK u \in K : t < u
  OBVIOUS
<1>6. n - u \in below
  OBVIOUS
<1>7. ~ (n - u < n - t)
  BY <1>4, <1>6, <1>8
<1> QED BY <1>5, <1>7

\* In a circle of statements each next toggle would be below another.
LEMMA NoCircle ==
    ASSUME BoundedToggles, TypeOK, LocksInOrder
    PROVE  NoDeadlock
<1> SUFFICES ASSUME NEW i \in inserts, NEW S \in SUBSET inserts, i \in S,
                    \A j \in S : \E n \in S : WaitsFor(j, n)
             PROVE  FALSE
  BY DEF NoDeadlock, InCircle
<1> DEFINE Awaited(j, n, k) == k \in n.locked /\ IsNext(j, k)
           K == {t \in Toggles : \E j, n \in S : \E k \in Key : Awaited(j, n, k) /\ k[1] = t}
<1>1. \A j \in S : \E n \in S : \E k \in Key : Awaited(j, n, k)
  BY DEF WaitsFor, IsNext, Unlocked
<1>2. \A k \in Key : k[1] \in Toggles
  BY DEF Key
<1>3. K # {}
  BY <1>1, <1>2
<1>4. ASSUME NEW t \in K PROVE \E u \in K : t < u
  <2>1. PICK j \in S, n \in S, k \in Key : Awaited(j, n, k) /\ k[1] = t
    OBVIOUS
  <2>2. PICK m \in S, l \in Key : Awaited(n, m, l)
    BY <1>1
  <2>3. k[1] < l[1]
    BY <2>1, <2>2 DEF LocksInOrder, IsNext
  <2> QED BY <1>2, <2>1, <2>2, <2>3
<1> HIDE DEF K
<1>5. PICK n \in Nat : Toggles \subseteq 0..n
  BY DEF BoundedToggles
<1>6. K \subseteq 0..n /\ K \in SUBSET Nat
  BY <1>5, MetricsAssumption DEF K
<1> QED BY <1>3, <1>4, <1>5, <1>6, Ascending

\* "Sort the rows to avoid deadlocks" is true of the reports of one hour, for
\* any servers and any statements, whatever fails.
THEOREM DeadlockAvoided ==
    ASSUME OneHour, BoundedToggles
    PROVE  Spec => []NoDeadlock
<1>1. Init => LocksInOrder
  BY DEF Init, LocksInOrder
<1>2. TypeOK /\ LocksInOrder => NoDeadlock
  BY NoCircle
<1>3. TypeOK /\ LocksInOrder /\ [Next]_vars => LocksInOrder'
  BY LocksInOrderStep
<1> QED BY <1>1, <1>2, <1>3, MetricsTypeCorrect, PTL DEF Spec
=============================================================================
