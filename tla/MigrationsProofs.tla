-------------------------- MODULE MigrationsProofs --------------------------
(***************************************************************************)
(* Proofs about Migrations, for any number of files, versions and sessions,*)
(* whatever files raise, and however often a process dies.                 *)
(***************************************************************************)
EXTENDS Migrations, TLAPS

(* A session that has come to a file has one of the four kinds, and it has *)
(* the checksums of files that are there.                                  *)
Working(x) == x.pc \in {"execute", "finish", "record", "fail"}

Placed(x) ==
    /\ x.pc \notin {"closed", "failed"} => x.kind \in Kinds /\ x.at # 0
    /\ x.pc \notin {"closed", "failed"} /\ Snapshot(x.kind) => x.sums \in [Files -> Versions]
    /\ Working(x) => x.at \in Files /\ x.sum \in Versions
    /\ x.pc \in {"finish", "record"} => Snapshot(x.kind)
    /\ x.pc = "fail" => x.kind # "helper"
    /\ x.pc = "done" => x.at = Last + 1

(* All files before f have been executed. *)
Before(f) == \A g \in Files : g < f => schema[g] # 0

(* What is on record as applied has been executed, and the helper records  *)
(* nothing else.                                                           *)
Backed(rows) == \A f \in Files : rows[f].ok => schema[f] # 0

Ledgers ==
    /\ \A k \in Kinds : Backed(ledger[k])
    /\ "helper" \in Kinds => \A f \in Files : ledger["helper"][f] # NoRow => ledger["helper"][f].ok

(* A session has left no file behind that was not executed.                *)
Progress(x) ==
    /\ Backed(x.rows)
    /\ x.pc \notin {"closed", "failed"} => Before(x.at)
    /\ x.pc = "record" => schema[x.at] # 0

(* Halves and ends only where everything before is executed. *)
Ordered ==
    /\ \A f \in Files : schema[f] # 0 \/ half[f] => Before(f)
    /\ setup = "up" => Before(Last + 1)

(* While no two sessions were open, run_migrations fails or executes what  *)
(* is not on record only, and what it executed stays on record.            *)
Alone ==
    /\ \A r, s \in Sessions : Open(r) /\ Open(s) => r = s
    /\ "run" \in Kinds =>
         /\ \A s \in Sessions : session[s].kind = "run" /\ session[s].pc \in {"execute", "fail"} =>
                                    ~ledger["run"][session[s].at].ok
         /\ \A f \in Files : "run" \in ran[f] => ledger["run"][f].ok
    /\ \A f \in Files : times[f] = IF "run" \in ran[f] THEN 1 ELSE 0

IInv ==
    /\ TypeOK
    /\ \A s \in Sessions : Placed(session[s]) /\ Progress(session[s])
    /\ Ledgers /\ Ordered
    /\ ~overlap => Alone
    /\ RecordedWhole

-----------------------------------------------------------------------------
(* What the steps keep of the database: what was executed stays executed.  *)
Grows == \A f \in Files : schema[f] # 0 => schema'[f] # 0

LEMMA Numbers ==
    /\ Files \subseteq Nat /\ Versions \subseteq 1 .. MaxVersion /\ Versions \subseteq 0 .. MaxVersion
    /\ \A v \in Versions : v # 0
    /\ \A f \in Files : f + 1 \in 0 .. Last + 1 /\ f + 1 # 0 /\ f \in 0 .. Last + 1
    /\ 0 \in 0 .. MaxVersion /\ 0 \in 0 .. Last + 1 /\ 1 \in 0 .. Last + 1 /\ 1 \in Versions
    /\ \A a \in 0 .. Last + 1 : a # 0 /\ ~(a > Last) => a \in Files
    /\ \A a \in 0 .. Last + 1 : a > Last => a = Last + 1
    /\ NoRow \in Row
  BY MigrationAssumption DEF Files, Versions, Row, NoRow

(* A step that changes one session: what it owes.                          *)
LEMMA OneChanged ==
    ASSUME IInv, Grows, NEW s \in Sessions, NEW x \in Session,
           session' = [session EXCEPT ![s] = x], Placed(x), Progress(x)'
    PROVE  /\ session' \in [Sessions -> Session]
           /\ \A r \in Sessions : Placed(session'[r]) /\ Progress(session[r])'
<1>1. session' \in [Sessions -> Session]
  BY DEF IInv, TypeOK
<1>2. ASSUME NEW r \in Sessions PROVE Placed(session'[r]) /\ Progress(session[r])'
  <2>1. CASE r = s
    <3>1. session'[r] = x
      BY <2>1 DEF IInv, TypeOK
    <3> QED BY <3>1 DEF Progress, Backed, Before
  <2>2. CASE r # s
    <3>1. session'[r] = session[r] /\ session[r] \in Session
      BY <2>2 DEF IInv, TypeOK
    <3>2. Placed(session[r]) /\ Progress(session[r])
      BY DEF IInv
    <3>3. session[r].pc = "record" => session[r].at \in Files
      BY <3>2 DEF Placed, Working
    <3> QED BY <3>1, <3>2, <3>3 DEF Progress, Backed, Before, Grows
  <2> QED BY <2>1, <2>2
<1> QED BY <1>1, <1>2

(* A step that changes none. *)
LEMMA NoneChanged ==
    ASSUME IInv, session' = session, schema' = schema
    PROVE  /\ session' \in [Sessions -> Session]
           /\ \A r \in Sessions : Placed(session'[r]) /\ Progress(session[r])'
  BY DEF IInv, TypeOK, Progress, Backed, Before

(* What a change of one session leaves of Alone, when nothing else that it *)
(* speaks of changes and the session opens nothing, nor comes to execute.  *)
LEMMA AloneKept ==
    ASSUME IInv, NEW s \in Sessions, NEW x \in Session,
           session' = [session EXCEPT ![s] = x], x.pc \notin {"closed", "done", "failed"} => Open(s),
           ~overlap /\ x.kind = "run" /\ x.pc \in {"execute", "fail"} => ~ledger["run"][x.at].ok,
           UNCHANGED <<ledger, ran, times, overlap>>
    PROVE  (~overlap => Alone)'
<1> SUFFICES ASSUME ~overlap PROVE Alone'
  OBVIOUS
<1>1. Alone
  BY DEF IInv
<1>2. ASSUME NEW r \in Sessions PROVE /\ Open(r)' => Open(r)
                                      /\ r # s => session'[r] = session[r]
                                      /\ r = s => session'[r] = x
  BY DEF IInv, TypeOK, Open
<1> QED BY <1>1, <1>2 DEF Alone

-----------------------------------------------------------------------------
LEMMA InitInv == ASSUME Init PROVE IInv
<1>1. Closed \in Session /\ ledger \in [Kinds -> Rows]
  BY Numbers DEF Init, Closed, Session, Rows
<1>2. TypeOK
  <2>1. crashes \in 0 .. MaxCrashes /\ starts \in 0 .. MaxStarts
    BY MigrationAssumption DEF Init
  <2>2. session \in [Sessions -> Session]
    BY <1>1 DEF Init
  <2> QED BY <1>1, <2>1, <2>2, Numbers DEF Init, TypeOK
<1>3. ASSUME NEW s \in Sessions PROVE Placed(session[s]) /\ Progress(session[s])
  BY DEF Init, Closed, Placed, Progress, Working, Backed, NoRow
<1>4. Ledgers /\ Ordered
  BY DEF Init, Ledgers, Ordered, Backed, NoRow
<1>5. Alone
  BY DEF Init, Alone, Open, Closed
<1>6. RecordedWhole
  BY DEF Init, RecordedWhole
<1> QED BY <1>2, <1>3, <1>4, <1>5, <1>6 DEF IInv
-----------------------------------------------------------------------------
(* Steps that leave the schema and the rows as they are. *)
LEMMA SessionAndLayout ==
    ASSUME IInv, NEW s \in Sessions, NEW x \in Session, session' = [session EXCEPT ![s] = x],
           Placed(x), Progress(x),
           x.pc \notin {"closed", "done", "failed"} => Open(s),
           ~overlap /\ x.kind = "run" /\ x.pc \in {"execute", "fail"} => ~ledger["run"][x.at].ok,
           UNCHANGED <<disk, once, schema, half, ledger, ran, times, overlap, starts>>,
           layout' \in {"none", "service", "shared"},
           crashes' \in 0 .. MaxCrashes, setup' \in {"none", "refused", "up"},
           setup' = "up" /\ setup # "up" => Before(Last + 1)
    PROVE  IInv'
<1>1. Progress(x)' /\ Grows
  BY DEF Progress, Backed, Before, Grows
<1>2. /\ session' \in [Sessions -> Session]
      /\ \A r \in Sessions : Placed(session'[r]) /\ Progress(session[r])'
  BY <1>1, OneChanged
<1>3. TypeOK'
  BY <1>2 DEF IInv, TypeOK
<1>4. (~overlap => Alone)'
  BY AloneKept
<1>5. Ledgers' /\ Ordered' /\ RecordedWhole'
  BY DEF IInv, Ledgers, Ordered, Backed, Before, RecordedWhole
<1> QED BY <1>2, <1>3, <1>4, <1>5 DEF IInv

(* Steps that leave the database as it is. *)
LEMMA SessionOnly ==
    ASSUME IInv, NEW s \in Sessions, NEW x \in Session, session' = [session EXCEPT ![s] = x],
           Placed(x), Progress(x),
           x.pc \notin {"closed", "done", "failed"} => Open(s),
           ~overlap /\ x.kind = "run" /\ x.pc \in {"execute", "fail"} => ~ledger["run"][x.at].ok,
           UNCHANGED <<disk, once, db, ran, times, overlap, starts>>,
           crashes' \in 0 .. MaxCrashes, setup' \in {"none", "refused", "up"},
           setup' = "up" /\ setup # "up" => Before(Last + 1)
    PROVE  IInv'
<1>1. UNCHANGED <<schema, half, ledger>> /\ layout' \in {"none", "service", "shared"}
  BY DEF db, IInv, TypeOK
<1> QED BY <1>1, SessionAndLayout

LEMMA Here ==
    ASSUME IInv, NEW s \in Sessions
    PROVE  /\ session[s] \in Session /\ Placed(session[s]) /\ Progress(session[s])
           /\ session[s].rows \in Rows /\ session[s].at \in 0 .. Last + 1
           /\ session[s].kind \in Kinds => ledger[session[s].kind] \in Rows
           /\ session[s].pc \notin {"closed", "failed"} =>
                 session[s].kind \in Kinds /\ session[s].at # 0
  BY DEF IInv, TypeOK, Session, Placed

LEMMA LookKept == ASSUME IInv, NEW s \in Sessions, Look(s) PROVE IInv'
<1> DEFINE k   == session[s].kind
           f   == session[s].at
           row == IF Snapshot(k) THEN session[s].rows[f] ELSE ledger[k][f]
           sum == IF Snapshot(k) THEN session[s].sums[f] ELSE disk[f]
<1>1. session[s].pc = "look" /\ Open(s)
  BY DEF Look, Open
<1>2. UNCHANGED <<disk, once, db, ran, times, overlap, crashes, setup, starts>>
  BY DEF Look, hist
<1>3. crashes' \in 0 .. MaxCrashes /\ setup' \in {"none", "refused", "up"}
  BY <1>2 DEF IInv, TypeOK
<1>4. /\ session[s] \in Session /\ Placed(session[s]) /\ Progress(session[s])
      /\ k \in Kinds /\ f \in 0 .. Last + 1 /\ f # 0
  BY <1>1, Here
<1>5. CASE f > Last
  <2>1. PICK x \in Session : x = [session[s] EXCEPT !.pc = "done"]
    BY <1>4 DEF Session
  <2>2. session' = [session EXCEPT ![s] = x]
    BY <1>5, <2>1 DEF Look, Goto
  <2>3. Placed(x)
    BY <1>1, <1>4, <1>5, <2>1, Numbers DEF Placed, Working, Session
  <2>4. Progress(x)
    BY <1>1, <1>4, <2>1 DEF Progress, Session
  <2> QED BY <1>2, <1>3, <2>1, <2>2, <2>3, <2>4, SessionOnly DEF Session
<1>6. CASE ~(f > Last) /\ Skips(k, row, sum)
  <2>1. f \in Files /\ f + 1 \in 0 .. Last + 1 /\ f + 1 # 0
    BY <1>4, <1>6, Numbers
  <2>2. PICK x \in Session : x = [session[s] EXCEPT !.pc = "look", !.at = f + 1]
    BY <1>4, <2>1 DEF Session
  <2>3. session' = [session EXCEPT ![s] = x]
    BY <1>6, <2>2 DEF Look, NextFile
  <2>4. Placed(x)
    BY <1>1, <1>4, <2>1, <2>2 DEF Placed, Working, Session
  <2>5. schema[f] # 0
    BY <1>4, <1>6, <2>1 DEF Skips, Progress, IInv, Ledgers, Backed, Snapshot
  <2>6. Before(f + 1)
    <3>1. Before(f)
      BY <1>1, <1>4 DEF Progress
    <3>2. ASSUME NEW g \in Files, g < f + 1 PROVE g < f \/ g = f
      BY <2>1, <3>2, Numbers DEF Files
    <3> QED BY <2>5, <3>1, <3>2 DEF Before
  <2>7. Progress(x)
    BY <1>4, <2>2, <2>6 DEF Progress, Session
  <2> QED BY <1>1, <1>2, <1>3, <2>2, <2>3, <2>4, <2>7, SessionOnly DEF Session
<1>7. CASE ~(f > Last) /\ ~Skips(k, row, sum) /\ Refuses(k, row, sum)
  <2>1. PICK x \in Session : x = [session[s] EXCEPT !.pc = "failed"]
    BY <1>4 DEF Session
  <2>2. session' = [session EXCEPT ![s] = x]
    BY <1>7, <2>1 DEF Look, Goto
  <2>3. Placed(x) /\ Progress(x)
    BY <1>4, <2>1 DEF Placed, Working, Session, Progress
  <2> QED BY <1>2, <1>3, <2>1, <2>2, <2>3, SessionOnly DEF Session
<1>8. CASE ~(f > Last) /\ ~Skips(k, row, sum) /\ ~Refuses(k, row, sum)
  <2>1. f \in Files
    BY <1>4, <1>8, Numbers
  <2>2. sum \in Versions /\ sum \in 0 .. MaxVersion
    BY <1>1, <1>4, <2>1, Numbers DEF IInv, TypeOK, Placed
  <2>3. PICK x \in Session : x = [session[s] EXCEPT !.pc = "execute", !.sum = sum]
    BY <1>4, <2>2 DEF Session
  <2>4. session' = [session EXCEPT ![s] = x]
    BY <1>8, <2>3 DEF Look
  <2>5. x.pc = "execute" /\ x.sum = sum /\ x.at = f /\ x.kind = k /\ x.rows = session[s].rows
        /\ x.sums = session[s].sums
    BY <1>4, <2>3 DEF Session
  <2>6. Placed(x)
    BY <1>1, <1>4, <2>1, <2>2, <2>5 DEF Placed, Working
  <2>7. Progress(x)
    BY <1>1, <1>4, <2>5 DEF Progress
  <2>8. k = "run" => ~ledger["run"][f].ok
    BY <1>8 DEF Skips, Refuses, Snapshot
  <2> QED BY <1>1, <1>2, <1>3, <2>4, <2>5, <2>6, <2>7, <2>8, SessionOnly
<1> QED BY <1>5, <1>6, <1>7, <1>8

LEMMA RaiseKept == ASSUME IInv, NEW s \in Sessions, Raise(s) PROVE IInv'
<1>1. session[s].pc = "execute" /\ Open(s)
  BY DEF Raise, Open
<1>2. UNCHANGED <<disk, once, db, ran, times, overlap, crashes, setup, starts>>
  BY DEF Raise, hist
<1>3. crashes' \in 0 .. MaxCrashes /\ setup' \in {"none", "refused", "up"}
  BY <1>2 DEF IInv, TypeOK
<1>4. session[s] \in Session /\ Placed(session[s]) /\ Progress(session[s])
  BY Here
<1>5. PICK pc \in {"failed", "fail"} : /\ session' = Goto(s, pc)
                                       /\ pc = "fail" => session[s].kind # "helper"
  BY DEF Raise
<1>6. PICK x \in Session : x = [session[s] EXCEPT !.pc = pc]
  BY <1>4 DEF Session
<1>7. session' = [session EXCEPT ![s] = x]
  BY <1>5, <1>6 DEF Goto
<1>8. x.pc = pc /\ \A g \in {"at", "kind", "rows", "sum", "sums"} : x[g] = session[s][g]
  BY <1>4, <1>6 DEF Session
<1>9. Placed(x) /\ Progress(x)
  BY <1>1, <1>4, <1>5, <1>8 DEF Placed, Working, Progress
<1>10. x.kind = "run" /\ x.pc \in {"execute", "fail"} /\ ~overlap => ~ledger["run"][x.at].ok
  BY <1>1, <1>4, <1>8 DEF IInv, Alone, Placed, Session
<1> QED BY <1>1, <1>2, <1>3, <1>5, <1>7, <1>8, <1>9, <1>10, SessionOnly

LEMMA ClosedFine == Closed \in Session /\ Placed(Closed) /\ Progress(Closed) /\ Closed.pc = "closed"
                    /\ Closed.kind = "none"
<1>1. Closed \in Session
  BY Numbers DEF Closed, Session, Rows
<1> QED BY <1>1 DEF Closed, Placed, Progress, Working, Backed, NoRow

LEMMA SetupKept == ASSUME IInv, NEW s \in Sessions, Setup(s) PROVE IInv'
<1>1. UNCHANGED <<disk, once, schema, half, ledger, ran, times, overlap, crashes, starts>>
  BY DEF Setup, hist
<1>2. /\ crashes' \in 0 .. MaxCrashes /\ setup' \in {"none", "refused", "up"}
      /\ layout' \in {"none", "service", "shared"}
  BY <1>1 DEF IInv, TypeOK, Setup
<1>3. Before(Last + 1)
  BY Here DEF Setup, Placed, Progress
<1>4. session' = [session EXCEPT ![s] = Closed]
  BY DEF Setup
<1> QED BY <1>1, <1>2, <1>3, <1>4, ClosedFine, SessionAndLayout

LEMMA CrashKept == ASSUME IInv, NEW s \in Sessions, Crash(s) PROVE IInv'
<1>1. UNCHANGED <<disk, once, db, ran, times, overlap, setup, starts>>
  BY DEF Crash, hist
<1>2. crashes' \in 0 .. MaxCrashes /\ setup' \in {"none", "refused", "up"}
  BY <1>1, MigrationAssumption DEF IInv, TypeOK, Crash
<1> QED BY <1>1, <1>2, ClosedFine, SessionOnly DEF Crash

LEMMA EditKept == ASSUME IInv, NEW f \in Files, Edit(f) PROVE IInv'
<1>1. UNCHANGED <<once, schema, half, ledger, layout, session, setup, ran, times, overlap, crashes,
                  starts>>
  BY DEF Edit, db, hist
<1>2. disk' \in [Files -> Versions]
  BY MigrationAssumption DEF IInv, TypeOK, Edit, Versions
<1>3. TypeOK'
  BY <1>1, <1>2 DEF IInv, TypeOK
<1>4. \A s \in Sessions : Placed(session'[s]) /\ Progress(session[s])'
  BY <1>1, NoneChanged
<1>5. Ledgers' /\ Ordered' /\ (~overlap => Alone)' /\ RecordedWhole'
  BY <1>1 DEF IInv, Ledgers, Ordered, Backed, Before, Alone, Open, RecordedWhole
<1> QED BY <1>3, <1>4, <1>5 DEF IInv

LEMMA ConnectKept == ASSUME IInv, NEW s \in Sessions, NEW k \in Kinds, Connect(s, k) PROVE IInv'
<1>1. UNCHANGED <<disk, once, schema, half, ledger, setup, ran, times, crashes>> /\ ~Open(s)
  BY DEF Connect
<1>2. PICK rows : rows = IF Snapshot(k) /\ ~Foreign(k) THEN ledger[k] ELSE Closed.rows
  OBVIOUS
<1>3. PICK sums : sums = IF Snapshot(k) THEN disk ELSE Closed.sums
  OBVIOUS
<1>4. PICK pc \in {"failed", "look"} : pc = IF Unreadable(k) THEN "failed" ELSE "look"
  OBVIOUS
<1>5. rows \in Rows /\ Backed(rows)
  BY <1>2, ClosedFine DEF IInv, TypeOK, Ledgers, Progress, Session
<1>6. sums \in [Files -> 0 .. MaxVersion] /\ (Snapshot(k) => sums \in [Files -> Versions])
  BY <1>3, ClosedFine, Numbers DEF IInv, TypeOK, Session
<1>7. PICK x \in Session : x = [Closed EXCEPT !.kind = k, !.at = 1, !.pc = pc, !.rows = rows, !.sums = sums]
  BY <1>4, <1>5, <1>6, ClosedFine, Numbers DEF Session
<1>8. session' = [session EXCEPT ![s] = x]
  BY <1>2, <1>3, <1>4, <1>7 DEF Connect, Closed
<1>9. x.kind = k /\ x.at = 1 /\ x.pc = pc /\ x.rows = rows /\ x.sums = sums
  BY <1>7 DEF Closed
<1>10. Placed(x)
  BY <1>4, <1>6, <1>9 DEF Placed, Working
<1>11. Progress(x)' /\ Grows
  <2>1. Before(1)
    BY Numbers DEF Before, Files
  <2> QED BY <1>1, <1>4, <1>5, <1>9, <2>1 DEF Progress, Backed, Before, Grows
<1>12. /\ session' \in [Sessions -> Session]
       /\ \A r \in Sessions : Placed(session'[r]) /\ Progress(session[r])'
  BY <1>8, <1>10, <1>11, OneChanged
<1>13. TypeOK'
  <2>1. layout' \in {"none", "service", "shared"}
    BY DEF Connect, IInv, TypeOK, Snapshot
  <2>2. starts' \in 0 .. MaxStarts /\ overlap' \in BOOLEAN
    BY MigrationAssumption DEF Connect, IInv, TypeOK
  <2> QED BY <1>1, <1>12, <2>1, <2>2 DEF IInv, TypeOK
<1>14. (~overlap => Alone)'
  <2> SUFFICES ASSUME ~overlap' PROVE Alone'
    OBVIOUS
  <2>1. ~overlap /\ \A r \in Sessions : ~Open(r)
    BY DEF Connect
  <2>2. Alone
    BY <2>1 DEF IInv
  <2>3. ASSUME NEW r \in Sessions PROVE /\ r # s => session'[r] = session[r]
                                        /\ session'[s] = x
    BY <1>8 DEF IInv, TypeOK
  <2> QED BY <1>1, <1>4, <1>9, <2>1, <2>2, <2>3 DEF Alone, Open
<1>15. Ledgers' /\ Ordered'
  BY <1>1 DEF IInv, Ledgers, Ordered, Backed, Before
<1>16. RecordedWhole'
  BY <1>1 DEF IInv, RecordedWhole, Connect
<1> QED BY <1>12, <1>13, <1>14, <1>15, <1>16 DEF IInv

-----------------------------------------------------------------------------
(* Steps that execute a file, or write a row. *)
LEMMA AtFile ==
    ASSUME IInv, NEW s \in Sessions, Working(session[s])
    PROVE  /\ session[s].at \in Files /\ session[s].kind \in Kinds /\ Open(s)
           /\ session[s].sum \in Versions /\ Sql(s) \in Versions /\ Sql(s) # 0
           /\ Sql(s) \in 0 .. MaxVersion /\ session[s].sum \in 0 .. MaxVersion
           /\ Before(session[s].at)
<1>1. session[s] \in Session /\ Placed(session[s]) /\ Progress(session[s])
  BY Here
<1>2. session[s].pc \notin {"closed", "done", "failed"}
  BY DEF Working
<1>3. session[s].at \in Files /\ session[s].kind \in Kinds /\ session[s].sum \in Versions
  BY <1>1, <1>2 DEF Placed
<1>4. Before(session[s].at)
  BY <1>1, <1>2 DEF Progress
<1>5. Sql(s) \in Versions
  BY <1>3 DEF Sql, IInv, TypeOK
<1> QED BY <1>2, <1>3, <1>4, <1>5, Numbers DEF Open

LEMMA Ran ==
    ASSUME IInv, NEW s \in Sessions, Working(session[s]), Executed(s)
    PROVE  /\ Grows /\ schema' \in [Files -> 0 .. MaxVersion] /\ half' \in [Files -> BOOLEAN]
           /\ ran' \in [Files -> SUBSET Kinds] /\ times' \in [Files -> Nat]
           /\ schema'[session[s].at] = Sql(s) /\ Sql(s) # 0
           /\ ran'[session[s].at] = ran[session[s].at] \cup {session[s].kind}
           /\ \A g \in Files : g # session[s].at =>
                 schema'[g] = schema[g] /\ ran'[g] = ran[g] /\ times'[g] = times[g]
           /\ times'[session[s].at] = times[session[s].at] + (IF session[s].kind = "run" THEN 1 ELSE 0)
           /\ UNCHANGED setup => Ordered'
<1> DEFINE f == session[s].at
<1>1. f \in Files /\ session[s].kind \in Kinds /\ Sql(s) # 0 /\ Sql(s) \in 0 .. MaxVersion /\ Before(f)
  BY AtFile
<1>2. TypeOK
  BY DEF IInv
<1>3. /\ schema' \in [Files -> 0 .. MaxVersion] /\ half' \in [Files -> BOOLEAN]
      /\ ran' \in [Files -> SUBSET Kinds] /\ times' \in [Files -> Nat]
  <2>1. schema' = [schema EXCEPT ![f] = Sql(s)] /\ half' = [half EXCEPT ![f] = FALSE]
    BY DEF Executed
  <2>2. ran' = [ran EXCEPT ![f] = @ \cup {session[s].kind}]
    BY DEF Executed
  <2>3. ran[f] \cup {session[s].kind} \in SUBSET Kinds
    BY <1>1, <1>2 DEF TypeOK
  <2>4. ran' \in [Files -> SUBSET Kinds]
    BY <1>2, <2>2, <2>3 DEF TypeOK
  <2>5. times' \in [Files -> Nat]
    <3>1. times[f] \in Nat /\ times[f] + 1 \in Nat
      BY <1>1, <1>2 DEF TypeOK
    <3>2. PICK n \in Nat : times' = [times EXCEPT ![f] = n]
      BY <3>1 DEF Executed
    <3> QED BY <1>2, <3>2 DEF TypeOK
  <2> QED BY <1>1, <1>2, <2>1, <2>4, <2>5 DEF TypeOK
<1>4. \A g \in Files : g # f => schema'[g] = schema[g] /\ half'[g] = half[g] /\ ran'[g] = ran[g]
                                /\ times'[g] = times[g]
  BY <1>2 DEF TypeOK, Executed
<1>5. schema'[f] = Sql(s) /\ half'[f] = FALSE /\ ran'[f] = ran[f] \cup {session[s].kind}
  BY <1>1, <1>2 DEF TypeOK, Executed
<1>6. times'[f] = times[f] + (IF session[s].kind = "run" THEN 1 ELSE 0)
  BY <1>1, <1>2 DEF TypeOK, Executed
<1>7. Grows
  BY <1>1, <1>4, <1>5 DEF Grows
<1>8. ASSUME UNCHANGED setup PROVE Ordered'
  <2>1. \A g \in Files : schema'[g] # 0 \/ half'[g] => Before(g)
    BY <1>1, <1>4, <1>5 DEF IInv, Ordered
  <2>2. \A g \in 0 .. Last + 1 : Before(g) => Before(g)'
    BY <1>7 DEF Before, Grows
  <2>3. Last + 1 \in 0 .. Last + 1
    BY MigrationAssumption
  <2> QED BY <1>8, <2>1, <2>2, <2>3, Numbers DEF IInv, Ordered
<1> QED BY <1>1, <1>3, <1>4, <1>5, <1>6, <1>7, <1>8

LEMMA Wrote ==
    ASSUME IInv, NEW s \in Sessions, Working(session[s]), NEW ok \in BOOLEAN, Write(s, ok),
           Grows, ok => schema'[session[s].at] # 0, ~ok => session[s].kind # "helper"
    PROVE  /\ ledger' \in [Kinds -> Rows] /\ Ledgers'
           /\ ledger'[session[s].kind][session[s].at] = [sum |-> session[s].sum, ok |-> ok]
           /\ \A k \in Kinds, g \in Files : k # session[s].kind \/ g # session[s].at =>
                 ledger'[k][g] = ledger[k][g]
<1> DEFINE f == session[s].at
           k == session[s].kind
           row == [sum |-> session[s].sum, ok |-> ok]
<1>1. f \in Files /\ k \in Kinds /\ session[s].sum \in 0 .. MaxVersion
  BY AtFile
<1>2. row \in Row
  BY <1>1 DEF Row
<1>3. ledger' = [ledger EXCEPT ![k] = [ledger[k] EXCEPT ![f] = row]]
  BY DEF Write
<1>4. ledger \in [Kinds -> Rows] /\ ledger[k] \in [Files -> Row]
  BY <1>1 DEF IInv, TypeOK, Rows
<1>5. [ledger[k] EXCEPT ![f] = row] \in Rows
  BY <1>1, <1>2, <1>4 DEF Rows
<1>6. ledger' \in [Kinds -> Rows]
  BY <1>3, <1>4, <1>5
<1>7. ledger'[k] = [ledger[k] EXCEPT ![f] = row] /\ \A j \in Kinds : j # k => ledger'[j] = ledger[j]
  BY <1>1, <1>3, <1>4
<1>8. ledger'[k][f] = row /\ \A g \in Files : g # f => ledger'[k][g] = ledger[k][g]
  BY <1>1, <1>4, <1>7
<1>9. \A j \in Kinds, g \in Files : j # k \/ g # f => ledger'[j][g] = ledger[j][g]
  BY <1>7, <1>8
<1>10. row.ok = ok
  OBVIOUS
<1>11. ASSUME NEW j \in Kinds, NEW g \in Files PROVE ledger'[j][g].ok => schema'[g] # 0
  BY <1>8, <1>9, <1>10 DEF IInv, Ledgers, Backed, Grows
<1>12. ASSUME "helper" \in Kinds, NEW g \in Files, ledger'["helper"][g] # NoRow
       PROVE  ledger'["helper"][g].ok
  BY <1>8, <1>9, <1>10, <1>12 DEF IInv, Ledgers
<1>13. Ledgers'
  <2>1. NoRow' = NoRow
    BY DEF NoRow
  <2> QED BY <1>11, <1>12, <2>1 DEF Ledgers, Backed
<1> QED BY <1>6, <1>8, <1>9, <1>13

(* `run` and `helper`.                                                     *)
LEMMA TransactKept == ASSUME IInv, NEW s \in Sessions, Transact(s) PROVE IInv'
<1> DEFINE f == session[s].at
           k == session[s].kind
<1>1. session[s].pc = "execute" /\ k \in {"run", "helper"} /\ ~Snapshot(k)
      /\ UNCHANGED <<disk, once, layout, setup, overlap, crashes, starts>>
  BY DEF Transact, Snapshot
<1>2. /\ f \in Files /\ k \in Kinds /\ Open(s) /\ Sql(s) = session[s].sum
      /\ session[s].sum \in 0 .. MaxVersion /\ Before(f) /\ Working(session[s])
  BY <1>1, AtFile DEF Working, Sql
<1>3. session[s] \in Session /\ Placed(session[s]) /\ Progress(session[s])
  BY Here
<1>4. CASE k = "helper" /\ ledger[k][f] # NoRow
  <2>1. PICK x \in Session : x = [session[s] EXCEPT !.pc = "failed"]
    BY <1>3 DEF Session
  <2>2. session' = [session EXCEPT ![s] = x] /\ UNCHANGED <<schema, half, ledger, ran, times>>
    BY <1>4, <2>1 DEF Transact, Goto
  <2>3. Placed(x) /\ Progress(x) /\ x.pc = "failed"
    BY <1>3, <2>1 DEF Placed, Working, Session, Progress
  <2>4. crashes' \in 0 .. MaxCrashes /\ setup' \in {"none", "refused", "up"}
    BY <1>1 DEF IInv, TypeOK
  <2> QED BY <1>1, <2>2, <2>3, <2>4, SessionOnly DEF db
<1>5. CASE ~(k = "helper" /\ ledger[k][f] # NoRow)
  <2>1. Executed(s) /\ Write(s, TRUE) /\ session' = NextFile(s, f)
    BY <1>5 DEF Transact
  <2>2. /\ Grows /\ schema' \in [Files -> 0 .. MaxVersion] /\ half' \in [Files -> BOOLEAN]
        /\ ran' \in [Files -> SUBSET Kinds] /\ times' \in [Files -> Nat]
        /\ schema'[f] = session[s].sum /\ schema'[f] # 0
        /\ ran'[f] = ran[f] \cup {k}
        /\ \A g \in Files : g # f =>
              schema'[g] = schema[g] /\ ran'[g] = ran[g] /\ times'[g] = times[g]
        /\ times'[f] = times[f] + (IF k = "run" THEN 1 ELSE 0)
        /\ Ordered'
    BY <1>1, <1>2, <2>1, Ran
  <2>3. /\ ledger' \in [Kinds -> Rows] /\ Ledgers'
        /\ ledger'[k][f] = [sum |-> session[s].sum, ok |-> TRUE]
        /\ \A j \in Kinds, g \in Files : j # k \/ g # f => ledger'[j][g] = ledger[j][g]
    BY <1>2, <2>1, <2>2, Wrote
  <2>4. f + 1 \in 0 .. Last + 1 /\ f + 1 # 0
    BY <1>2, Numbers
  <2>5. PICK x \in Session : x = [session[s] EXCEPT !.pc = "look", !.at = f + 1]
    BY <1>3, <2>4 DEF Session
  <2>6. session' = [session EXCEPT ![s] = x]
    BY <2>1, <2>5 DEF NextFile
  <2>7. x.pc = "look" /\ x.at = f + 1 /\ x.kind = k /\ x.rows = session[s].rows
        /\ x.sums = session[s].sums
    BY <1>3, <2>5 DEF Session
  <2>8. Placed(x)
    BY <1>1, <1>2, <2>4, <2>7 DEF Placed, Working
  <2>9. \A g \in Files : g < f + 1 => schema'[g] # 0
    <3>1. ASSUME NEW g \in Files, g < f + 1 PROVE g < f \/ g = f
      BY <1>2, <3>1, Numbers
    <3> QED BY <1>2, <2>2, <3>1 DEF Before, Grows
  <2>10. Progress(x)'
    BY <1>3, <2>2, <2>7, <2>9 DEF Progress, Backed, Before, Grows
  <2>11. /\ session' \in [Sessions -> Session]
         /\ \A r \in Sessions : Placed(session'[r]) /\ Progress(session[r])'
    BY <2>2, <2>6, <2>8, <2>10, OneChanged
  <2>12. TypeOK'
    BY <1>1, <2>2, <2>3, <2>11 DEF IInv, TypeOK
  <2>13. ASSUME ~overlap PROVE Alone'
    <3>1. Alone
      BY <2>13 DEF IInv
    <3>2. ASSUME NEW r \in Sessions PROVE /\ r # s => session'[r] = session[r] /\ ~Open(r)
                                          /\ session'[s] = x
      BY <1>2, <2>6, <3>1 DEF IInv, TypeOK, Alone
    <3>3. \A r, q \in Sessions : Open(r)' /\ Open(q)' => r = q
      BY <3>2 DEF Open
    <3>4. \A r \in Sessions : session'[r].pc \notin {"execute", "fail"}
      BY <2>7, <3>2 DEF Open
    <3>5. "run" \in Kinds => \A g \in Files : "run" \in ran'[g] => ledger'["run"][g].ok
      BY <1>1, <2>2, <2>3, <3>1 DEF Alone
    <3>6. k = "run" => "run" \notin ran[f]
      BY <1>1, <1>2, <3>1 DEF Alone
    <3>7. times'[f] = IF "run" \in ran'[f] THEN 1 ELSE 0
      BY <1>1, <1>2, <2>2, <3>1, <3>6 DEF Alone
    <3> QED BY <2>2, <3>1, <3>3, <3>4, <3>5, <3>7 DEF Alone
  <2>14. ASSUME NEW g \in Files PROVE RecordedWhole!(g)'
    <3>1. CASE g = f
      <4>1. k \in ran'[g] /\ ledger'[k][g] = [sum |-> schema'[g], ok |-> TRUE]
        BY <2>2, <2>3, <3>1
      <4> QED BY <4>1
    <3>2. CASE g # f
      <4>1. ran'[g] = ran[g] /\ schema'[g] = schema[g] /\ ran[g] \subseteq Kinds
            /\ \A j \in Kinds : ledger'[j][g] = ledger[j][g]
        BY <2>2, <2>3, <3>2 DEF IInv, TypeOK
      <4>2. RecordedWhole!(g)
        BY DEF IInv, RecordedWhole
      <4> QED BY <1>1, <4>1, <4>2
    <3> QED BY <3>1, <3>2
  <2>15. RecordedWhole'
    BY <2>14 DEF RecordedWhole
  <2> QED BY <1>1, <2>2, <2>3, <2>11, <2>12, <2>13, <2>15 DEF IInv
<1> QED BY <1>4, <1>5

(* What the two snapshot functions execute, at once or in halves.          *)
LEMMA ExecutedKept ==
    ASSUME IInv, NEW s \in Sessions, session[s].pc \in {"execute", "finish"},
           Snapshot(session[s].kind), Executed(s), session' = Goto(s, "record"),
           UNCHANGED <<disk, once, ledger, layout, setup, overlap, crashes, starts>>
    PROVE  IInv'
<1> DEFINE f == session[s].at
           k == session[s].kind
<1>1. f \in Files /\ k \in Kinds /\ Open(s) /\ Working(session[s]) /\ k \notin {"run", "helper"}
  BY AtFile DEF Working, Snapshot
<1>2. session[s] \in Session /\ Placed(session[s]) /\ Progress(session[s])
  BY Here
<1>3. /\ Grows /\ schema' \in [Files -> 0 .. MaxVersion] /\ half' \in [Files -> BOOLEAN]
      /\ ran' \in [Files -> SUBSET Kinds] /\ times' \in [Files -> Nat]
      /\ schema'[f] # 0 /\ ran'[f] = ran[f] \cup {k}
      /\ \A g \in Files : g # f => schema'[g] = schema[g] /\ ran'[g] = ran[g] /\ times'[g] = times[g]
      /\ times'[f] = times[f] + 0 /\ Ordered'
  BY <1>1, Ran
<1>4. times'[f] = times[f]
  BY <1>1, <1>3 DEF IInv, TypeOK
<1>5. PICK x \in Session : x = [session[s] EXCEPT !.pc = "record"]
  BY <1>2 DEF Session
<1>6. session' = [session EXCEPT ![s] = x]
  BY <1>5 DEF Goto
<1>7. x.pc = "record" /\ x.at = f /\ x.kind = k /\ x.rows = session[s].rows
      /\ x.sum = session[s].sum /\ x.sums = session[s].sums
  BY <1>2, <1>5 DEF Session
<1>8. Placed(x)
  BY <1>2, <1>7 DEF Placed, Working
<1>9. Progress(x)'
  BY <1>2, <1>3, <1>7 DEF Progress, Backed, Before, Grows
<1>10. /\ session' \in [Sessions -> Session]
       /\ \A r \in Sessions : Placed(session'[r]) /\ Progress(session[r])'
  BY <1>3, <1>6, <1>8, <1>9, OneChanged
<1>11. TypeOK'
  BY <1>3, <1>10 DEF IInv, TypeOK
<1>12. Ledgers'
  BY <1>3 DEF IInv, Ledgers, Backed, Grows
<1>13. ASSUME ~overlap PROVE Alone'
  <2>1. Alone
    BY <1>13 DEF IInv
  <2>2. ASSUME NEW r \in Sessions PROVE /\ r # s => session'[r] = session[r] /\ ~Open(r)
                                        /\ session'[s] = x
    BY <1>1, <1>6, <2>1 DEF IInv, TypeOK, Alone
  <2>3. /\ \A r, q \in Sessions : Open(r)' /\ Open(q)' => r = q
        /\ \A r \in Sessions : session'[r].pc \notin {"execute", "fail"}
    BY <1>7, <2>2 DEF Open
  <2>4. \A g \in Files : ("run" \in ran'[g]) = ("run" \in ran[g]) /\ times'[g] = times[g]
    BY <1>1, <1>3, <1>4
  <2> QED BY <2>1, <2>3, <2>4 DEF Alone
<1>14. ASSUME NEW g \in Files PROVE RecordedWhole!(g)'
  <2>1. CASE g = f
    BY <1>1, <1>3, <2>1
  <2>2. CASE g # f
    <3>1. RecordedWhole!(g)
      BY DEF IInv, RecordedWhole
    <3> QED BY <1>3, <2>2, <3>1
  <2> QED BY <2>1, <2>2
<1>15. RecordedWhole'
  BY <1>14 DEF RecordedWhole
<1> QED BY <1>3, <1>10, <1>11, <1>12, <1>13, <1>15 DEF IInv

LEMMA HalfKept == ASSUME IInv, NEW s \in Sessions, ExecuteHalf(s) PROVE IInv'
<1> DEFINE f == session[s].at
<1>1. session[s].pc = "execute" /\ Snapshot(session[s].kind) /\ session[s].kind = "shared"
  BY DEF ExecuteHalf, Snapshot
<1>2. UNCHANGED <<disk, once, schema, ledger, layout, setup, ran, times, overlap, crashes, starts>>
  BY DEF ExecuteHalf, hist
<1>3. f \in Files /\ Open(s) /\ Before(f) /\ Working(session[s])
  BY <1>1, AtFile DEF Working
<1>4. session[s] \in Session /\ Placed(session[s]) /\ Progress(session[s])
  BY Here
<1>5. PICK x \in Session : x = [session[s] EXCEPT !.pc = "finish"]
  BY <1>4 DEF Session
<1>6. session' = [session EXCEPT ![s] = x]
  BY <1>5 DEF ExecuteHalf, Goto
<1>7. x.pc = "finish" /\ x.at = f /\ x.kind = session[s].kind /\ x.rows = session[s].rows
      /\ x.sum = session[s].sum /\ x.sums = session[s].sums
  BY <1>4, <1>5 DEF Session
<1>8. Placed(x)
  BY <1>1, <1>4, <1>7 DEF Placed, Working
<1>9. Progress(x)' /\ Grows
  BY <1>1, <1>2, <1>4, <1>7 DEF Progress, Backed, Before, Grows
<1>10. /\ session' \in [Sessions -> Session]
       /\ \A r \in Sessions : Placed(session'[r]) /\ Progress(session[r])'
  BY <1>6, <1>8, <1>9, OneChanged
<1>11. half' \in [Files -> BOOLEAN] /\ \A g \in Files : g # f => half'[g] = half[g]
  BY <1>3 DEF ExecuteHalf, IInv, TypeOK
<1>12. TypeOK'
  BY <1>2, <1>10, <1>11 DEF IInv, TypeOK
<1>13. (~overlap => Alone)'
  BY <1>2, <1>3, <1>6, <1>7, AloneKept
<1>14. Ledgers' /\ Ordered' /\ RecordedWhole'
  BY <1>2, <1>3, <1>11 DEF IInv, Ledgers, Ordered, Backed, Before, RecordedWhole
<1> QED BY <1>10, <1>12, <1>13, <1>14 DEF IInv

LEMMA RecordKept == ASSUME IInv, NEW s \in Sessions, Record(s) PROVE IInv'
<1> DEFINE f == session[s].at
           k == session[s].kind
<1>1. session[s].pc = "record" /\ Working(session[s])
  BY DEF Record, Working
<1>2. UNCHANGED <<disk, once, schema, half, layout, setup, ran, times, overlap, crashes, starts>>
  BY DEF Record, hist
<1>3. f \in Files /\ k \in Kinds /\ Open(s) /\ Before(f)
  BY <1>1, AtFile
<1>4. session[s] \in Session /\ Placed(session[s]) /\ Progress(session[s])
  BY Here
<1>5. k \notin {"run", "helper"} /\ schema[f] # 0
  BY <1>1, <1>4 DEF Placed, Progress, Snapshot
<1>6. crashes' \in 0 .. MaxCrashes /\ setup' \in {"none", "refused", "up"}
  BY <1>2 DEF IInv, TypeOK
<1>7. CASE Foreign(k)
  <2>1. PICK x \in Session : x = [session[s] EXCEPT !.pc = "failed"]
    BY <1>4 DEF Session
  <2>2. session' = [session EXCEPT ![s] = x] /\ UNCHANGED ledger
    BY <1>7, <2>1 DEF Record, Goto
  <2>3. Placed(x) /\ Progress(x) /\ x.pc = "failed"
    BY <1>4, <2>1 DEF Placed, Working, Session, Progress
  <2> QED BY <1>2, <1>6, <2>2, <2>3, SessionOnly DEF db
<1>8. CASE ~Foreign(k)
  <2>1. Write(s, TRUE) /\ session' = NextFile(s, f)
    BY <1>8 DEF Record
  <2>2. Grows
    BY <1>2 DEF Grows
  <2>3. /\ ledger' \in [Kinds -> Rows] /\ Ledgers'
        /\ \A j \in Kinds, g \in Files : j # k \/ g # f => ledger'[j][g] = ledger[j][g]
    BY <1>1, <1>2, <1>5, <2>1, <2>2, Wrote
  <2>4. f + 1 \in 0 .. Last + 1 /\ f + 1 # 0
    BY <1>3, Numbers
  <2>5. PICK x \in Session : x = [session[s] EXCEPT !.pc = "look", !.at = f + 1]
    BY <1>4, <2>4 DEF Session
  <2>6. session' = [session EXCEPT ![s] = x]
    BY <2>1, <2>5 DEF NextFile
  <2>7. x.pc = "look" /\ x.at = f + 1 /\ x.kind = k /\ x.rows = session[s].rows
        /\ x.sums = session[s].sums
    BY <1>4, <2>5 DEF Session
  <2>8. Placed(x)
    BY <1>1, <1>3, <1>4, <2>4, <2>7 DEF Placed, Working
  <2>9. \A g \in Files : g < f + 1 => schema[g] # 0
    <3>1. ASSUME NEW g \in Files, g < f + 1 PROVE g < f \/ g = f
      BY <1>3, <3>1, Numbers
    <3> QED BY <1>3, <1>5, <3>1 DEF Before
  <2>10. Progress(x)'
    BY <1>2, <1>4, <2>7, <2>9 DEF Progress, Backed, Before
  <2>11. /\ session' \in [Sessions -> Session]
         /\ \A r \in Sessions : Placed(session'[r]) /\ Progress(session[r])'
    BY <2>2, <2>6, <2>8, <2>10, OneChanged
  <2>12. TypeOK'
    BY <1>2, <2>3, <2>11 DEF IInv, TypeOK
  <2>13. ASSUME ~overlap PROVE Alone'
    <3>1. Alone
      BY <2>13 DEF IInv
    <3>2. ASSUME NEW r \in Sessions PROVE /\ r # s => session'[r] = session[r] /\ ~Open(r)
                                          /\ session'[s] = x
      BY <1>3, <2>6, <3>1 DEF IInv, TypeOK, Alone
    <3>3. /\ \A r, q \in Sessions : Open(r)' /\ Open(q)' => r = q
          /\ \A r \in Sessions : session'[r].pc \notin {"execute", "fail"}
      BY <2>7, <3>2 DEF Open
    <3>4. "run" \in Kinds => \A g \in Files : ledger'["run"][g] = ledger["run"][g]
      BY <1>5, <2>3
    <3> QED BY <1>2, <3>1, <3>3, <3>4 DEF Alone
  <2>14. ASSUME NEW g \in Files PROVE RecordedWhole!(g)'
    <3>1. ran[g] \subseteq Kinds /\ RecordedWhole!(g)
      BY DEF IInv, TypeOK, RecordedWhole
    <3> QED BY <1>2, <1>5, <2>3, <3>1
  <2>15. RecordedWhole' /\ Ordered'
    BY <1>2, <2>14 DEF RecordedWhole, IInv, Ordered, Before
  <2> QED BY <1>2, <2>3, <2>11, <2>12, <2>13, <2>15 DEF IInv
<1> QED BY <1>7, <1>8

LEMMA FailureKept == ASSUME IInv, NEW s \in Sessions, RecordFailure(s) PROVE IInv'
<1> DEFINE f == session[s].at
           k == session[s].kind
<1>1. session[s].pc = "fail" /\ Working(session[s]) /\ Write(s, FALSE)
  BY DEF RecordFailure, Working
<1>2. UNCHANGED <<disk, once, schema, half, layout, setup, ran, times, overlap, crashes, starts>>
  BY DEF RecordFailure, hist
<1>3. f \in Files /\ k \in Kinds /\ Open(s)
  BY <1>1, AtFile
<1>4. session[s] \in Session /\ Placed(session[s]) /\ Progress(session[s])
  BY Here
<1>5. k # "helper" /\ Grows
  BY <1>1, <1>2, <1>4 DEF Placed, Grows
<1>6. /\ ledger' \in [Kinds -> Rows] /\ Ledgers'
      /\ \A j \in Kinds, g \in Files : j # k \/ g # f => ledger'[j][g] = ledger[j][g]
  BY <1>1, <1>5, Wrote
<1>7. PICK x \in Session : x = [session[s] EXCEPT !.pc = "failed"]
  BY <1>4 DEF Session
<1>8. session' = [session EXCEPT ![s] = x] /\ x.pc = "failed"
  BY <1>4, <1>7 DEF RecordFailure, Goto, Session
<1>9. Placed(x) /\ Progress(x)'
  BY <1>2, <1>4, <1>7 DEF Placed, Working, Session, Progress, Backed
<1>10. /\ session' \in [Sessions -> Session]
       /\ \A r \in Sessions : Placed(session'[r]) /\ Progress(session[r])'
  BY <1>5, <1>8, <1>9, OneChanged
<1>11. TypeOK'
  BY <1>2, <1>6, <1>10 DEF IInv, TypeOK
<1>12. ASSUME ~overlap
       PROVE  /\ \A r \in Sessions : r # s => session'[r] = session[r] /\ ~Open(r)
              /\ session'[s] = x /\ Alone
              /\ k = "run" => "run" \notin ran[f]
  <2>1. Alone
    BY <1>12 DEF IInv
  <2>2. k = "run" => ~ledger["run"][f].ok
    BY <1>1, <1>3, <2>1 DEF Alone
  <2> QED BY <1>3, <1>8, <2>1, <2>2 DEF Alone, IInv, TypeOK
<1>13. ASSUME ~overlap PROVE Alone'
  <2>1. /\ \A r, q \in Sessions : Open(r)' /\ Open(q)' => r = q
        /\ \A r \in Sessions : session'[r].pc \notin {"execute", "fail"}
    BY <1>8, <1>12, <1>13 DEF Open
  <2>2. "run" \in Kinds => \A g \in Files : "run" \in ran[g] => ledger'["run"][g].ok
    BY <1>3, <1>6, <1>12, <1>13 DEF Alone
  <2> QED BY <1>2, <1>12, <1>13, <2>1, <2>2 DEF Alone
<1>14. ASSUME NEW g \in Files PROVE RecordedWhole!(g)'
  <2>1. ran[g] \subseteq Kinds /\ RecordedWhole!(g)
    BY DEF IInv, TypeOK, RecordedWhole
  <2> QED BY <1>2, <1>5, <1>6, <1>12, <2>1
<1>15. RecordedWhole' /\ Ordered'
  BY <1>2, <1>14 DEF RecordedWhole, IInv, Ordered, Before
<1> QED BY <1>2, <1>6, <1>10, <1>11, <1>13, <1>15 DEF IInv

LEMMA StepKept == ASSUME IInv, [Next]_vars PROVE IInv'
<1>1. ASSUME NEW s \in Sessions, Execute(s) PROVE IInv'
  BY <1>1, ExecutedKept DEF Execute
<1>2. ASSUME NEW s \in Sessions, ExecuteRest(s) PROVE IInv'
  <2>1. Snapshot(session[s].kind)
    BY <1>2, Here DEF ExecuteRest, Placed
  <2> QED BY <1>2, <2>1, ExecutedKept DEF ExecuteRest
<1>3. ASSUME NEW s \in Sessions, SessionNext(s) PROVE IInv'
  BY <1>1, <1>2, <1>3, LookKept, TransactKept, HalfKept, RecordKept, RaiseKept, FailureKept, SetupKept
     DEF SessionNext
<1>4. CASE UNCHANGED vars
  <2>1. \A s \in Sessions : Placed(session'[s]) /\ Progress(session[s])'
    BY <1>4, NoneChanged DEF vars, db
  <2> QED BY <1>4, <2>1 DEF vars, db, hist, IInv, TypeOK, Ledgers, Ordered, Backed, Before, Alone, Open,
                            RecordedWhole
<1> QED BY <1>3, <1>4, CrashKept, ConnectKept, EditKept DEF Next

-----------------------------------------------------------------------------
(* The invariant that the theorems below follow from. *)
THEOREM Inductive == Spec => []IInv
<1>1. Init => IInv
  BY InitInv
<1>2. IInv /\ [Next]_vars => IInv'
  BY StepKept
<1> QED BY <1>1, <1>2, PTL DEF Spec

(* Types: a session that is open stands at a file that is there. *)
THEOREM TypeCorrect == Spec => []TypeOK
<1>1. IInv => TypeOK
  BY DEF IInv
<1> QED BY <1>1, Inductive, PTL

(* No migration before one that failed to execute, and none reported as    *)
(* applied that was not executed: the order in which the four functions go *)
(* through the files, and where each of them stops.                        *)
THEOREM FilesInOrder == Spec => []InOrder
<1>1. ASSUME IInv PROVE InOrder
  <2>1. \A f, g \in Files : g < f /\ (schema[f] # 0 \/ half[f]) => schema[g] # 0
    BY <1>1 DEF IInv, Ordered, Before
  <2>2. ASSUME NEW f \in Files, NEW k, Status(k, f) = "applied" PROVE schema[f] # 0
    BY <1>1, <2>2 DEF Status, IInv, Ledgers, Backed
  <2>3. ASSUME NEW f \in Files, setup = "up" PROVE schema[f] # 0
    <3>1. f < Last + 1
      BY MigrationAssumption DEF Files
    <3> QED BY <1>1, <2>3, <3>1 DEF IInv, Ordered, Before
  <2> QED BY <2>1, <2>2, <2>3 DEF InOrder, Reported
<1> QED BY <1>1, Inductive, PTL

(* The row of what a transaction executed is there, in that version. *)
THEOREM TransactionsRecorded == Spec => []RecordedWhole
<1>1. IInv => RecordedWhole
  BY DEF IInv
<1> QED BY <1>1, Inductive, PTL

(* run_migrations executes a file once at the most. *)
THEOREM ExecutedOnce == Spec => []OnceByRun
<1>1. IInv => OnceByRun
  BY DEF IInv, Alone, OnceByRun
<1> QED BY <1>1, Inductive, PTL
=============================================================================
