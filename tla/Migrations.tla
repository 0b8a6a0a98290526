----------------------------- MODULE Migrations -----------------------------
(***************************************************************************)
(* The SQL migrations.  Four functions of the code apply the same files,   *)
(* and they share no ledger:                                               *)
(*   "run"      db/migrations.run_migrations, of up, setup local, migrate  *)
(*              run and phase 4; ledger schema_migrations                  *)
(*   "service"  core/migrations.MigrationService, of migrate up and of the *)
(*              readiness checks; ledger netengine_schema_migrations, with *)
(*              a row for a version                                        *)
(*   "shared"   utils/migration_service.MigrationService; a ledger of the  *)
(*              same name, with a row for a file name                      *)
(*   "helper"   utils/migrations.apply_migration_files; ledger             *)
(*              netengine_migration_ledger                                 *)
(* A checksum stands for the version of the file it was computed from, and *)
(* 0 for no row, or for a file that was never executed.                    *)
(***************************************************************************)
EXTENDS Naturals, FiniteSets

CONSTANTS Last,        (* the migration files are 1 .. Last, in order       *)
          MaxVersion,  (* how often a file may be edited                    *)
          Broken,      (* <<file, version>> whose SQL raises                *)
          Once,        (* files whose SQL may raise when it is run again    *)
          Bare,        (* <<file, version>> that no transaction allows      *)
          Sessions,    (* processes that apply migrations                   *)
          Kinds,       (* which of the four they use                        *)
          MaxCrashes, MaxStarts

Files    == 1 .. Last
Versions == 1 .. MaxVersion

ASSUME MigrationAssumption ==
    /\ Last \in Nat \ {0} /\ MaxVersion \in Nat \ {0}
    /\ Broken \subseteq Files \X Versions /\ Once \subseteq Files
    /\ Bare \subseteq Files \X Versions
    /\ Kinds \subseteq {"run", "service", "shared", "helper"}
    /\ MaxCrashes \in Nat /\ MaxStarts \in Nat

Row   == [sum : 0 .. MaxVersion, ok : BOOLEAN]
NoRow == [sum |-> 0, ok |-> FALSE]
Rows  == [Files -> Row]

VARIABLES disk,     (* the version of each file                             *)
          once,     (* the files whose SQL raises when it is run again      *)
          schema,   (* the version whose statements were last all executed  *)
          half,     (* some statements of the file were executed, not all   *)
          ledger,   (* the rows of each kind's ledger                       *)
          layout,   (* who created netengine_schema_migrations              *)
          session,
          setup,    (* what `setup local` came to                           *)
          ran,      (* history: the kinds that executed a file              *)
          times,    (* history: how often "run" executed it                 *)
          overlap,  (* history: whether two sessions were open at once      *)
          crashes, starts

db   == <<schema, half, ledger, layout>>
hist == <<ran, times, overlap, crashes>>
vars == <<disk, once, db, session, setup, hist, starts>>

Session == [pc : {"closed", "look", "execute", "finish", "record", "fail", "done", "failed"},
            kind : Kinds \cup {"none"}, at : 0 .. Last + 1, sum : 0 .. MaxVersion,
            rows : Rows, sums : [Files -> 0 .. MaxVersion]]

Closed == [pc |-> "closed", kind |-> "none", at |-> 0, sum |-> 0,
           rows |-> [f \in Files |-> NoRow], sums |-> [f \in Files |-> 0]]

TypeOK ==
    /\ disk \in [Files -> Versions] /\ once \subseteq Once
    /\ schema \in [Files -> 0 .. MaxVersion]
    /\ half \in [Files -> BOOLEAN]
    /\ ledger \in [Kinds -> Rows] /\ layout \in {"none", "service", "shared"}
    /\ session \in [Sessions -> Session]
    /\ setup \in {"none", "refused", "up"}
    /\ ran \in [Files -> SUBSET Kinds] /\ times \in [Files -> Nat]
    /\ overlap \in BOOLEAN /\ crashes \in 0 .. MaxCrashes /\ starts \in 0 .. MaxStarts

Init ==
    /\ disk = [f \in Files |-> 1] /\ once \in SUBSET Once
    /\ schema = [f \in Files |-> 0] /\ half = [f \in Files |-> FALSE]
    /\ ledger = [k \in Kinds |-> [f \in Files |-> NoRow]] /\ layout = "none"
    /\ session = [s \in Sessions |-> Closed]
    /\ setup = "none"
    /\ ran = [f \in Files |-> {}] /\ times = [f \in Files |-> 0]
    /\ overlap = FALSE /\ crashes = 0 /\ starts = 0

-----------------------------------------------------------------------------
Open(s) == session[s].pc \notin {"closed", "done", "failed"}

(* These two read every row and every file before they apply the first.    *)
Snapshot(k) == k \in {"service", "shared"}

Foreign(k) == Snapshot(k) /\ layout \notin {"none", k}

(* What stops them on a ledger of the other's columns: the service selects *)
(* a column that is not there, the other reads one of the rows it finds.   *)
Unreadable(k) ==
    Foreign(k) /\ (k = "service" \/ \E f \in Files : ledger["service"][f] # NoRow)

Connect(s, k) ==
    /\ ~Open(s) /\ starts < MaxStarts
    /\ session' = [session EXCEPT ![s] =
           [Closed EXCEPT !.kind = k, !.at = 1,
                          !.pc = IF Unreadable(k) THEN "failed" ELSE "look",
                          !.rows = IF Snapshot(k) /\ ~Foreign(k) THEN ledger[k] ELSE @,
                          !.sums = IF Snapshot(k) THEN disk ELSE @]]
    /\ layout' = IF Snapshot(k) /\ layout = "none" THEN k ELSE layout
    /\ overlap' = (overlap \/ \E r \in Sessions : Open(r))
    /\ starts' = starts + 1
    /\ UNCHANGED <<disk, once, schema, half, ledger, setup, ran, times, crashes>>

(* What a session makes of the row of a file and of the file's checksum.   *)
Skips(k, row, sum) ==
    \/ Snapshot(k) /\ row.ok
    \/ k = "run" /\ row.ok /\ row.sum = sum
    \/ k = "helper" /\ row # NoRow /\ row.sum = sum

(* Defect: a changed file is applied again. *)
RefusesNone(k, row, sum) == FALSE

Refuses(k, row, sum) ==
    \/ k = "run" /\ row.ok /\ row.sum # sum
    \/ k = "helper" /\ row # NoRow /\ row.sum # sum

Goto(s, pc) == [session EXCEPT ![s].pc = pc]

NextFile(s, f) == [session EXCEPT ![s].pc = "look", ![s].at = f + 1]

Look(s) ==
    LET k   == session[s].kind
        f   == session[s].at
        row == IF Snapshot(k) THEN session[s].rows[f] ELSE ledger[k][f]
        sum == IF Snapshot(k) THEN session[s].sums[f] ELSE disk[f]
    IN
    /\ session[s].pc = "look"
    /\ session' = IF f > Last THEN Goto(s, "done")
                  ELSE IF Skips(k, row, sum) THEN NextFile(s, f)
                  ELSE IF Refuses(k, row, sum) THEN Goto(s, "failed")
                  ELSE [session EXCEPT ![s].pc = "execute", ![s].sum = sum]
    /\ UNCHANGED <<disk, once, db, setup, hist, starts>>

(* The version whose SQL a session executes: "run" and "helper" have read  *)
(* it with the checksum, the others read the file again.                   *)
Sql(s) == IF Snapshot(session[s].kind) THEN disk[session[s].at] ELSE session[s].sum

Raises(s) ==
    LET f == session[s].at IN
    \/ <<f, Sql(s)>> \in Broken
    \/ f \in once /\ (schema[f] # 0 \/ half[f])
    \/ <<f, Sql(s)>> \in Bare /\ session[s].kind # "shared"

Executed(s) ==
    LET f == session[s].at
        k == session[s].kind
    IN  /\ schema' = [schema EXCEPT ![f] = Sql(s)]
        /\ half' = [half EXCEPT ![f] = FALSE]
        /\ ran' = [ran EXCEPT ![f] = @ \cup {k}]
        /\ times' = [times EXCEPT ![f] = IF k = "run" THEN @ + 1 ELSE @]

Write(s, ok) ==
    ledger' = [ledger EXCEPT ![session[s].kind][session[s].at] =
                  [sum |-> session[s].sum, ok |-> ok]]

(* Defect: the row is written after the transaction. *)
TransactRecordingLater(s) ==
    /\ session[s].pc = "execute" /\ session[s].kind \in {"run", "helper"} /\ ~Raises(s)
    /\ Executed(s)
    /\ session' = Goto(s, "record")
    /\ UNCHANGED <<disk, once, ledger, layout, setup, overlap, crashes, starts>>

(* `run` and `helper`: the file and its row in one transaction.  The row   *)
(* the helper inserts may be there by now, which undoes all of it.         *)
Transact(s) ==
    LET k == session[s].kind
        f == session[s].at
    IN
    /\ session[s].pc = "execute" /\ k \in {"run", "helper"} /\ ~Raises(s)
    /\ IF k = "helper" /\ ledger[k][f] # NoRow
       THEN session' = Goto(s, "failed") /\ UNCHANGED <<schema, half, ledger, ran, times>>
       ELSE Executed(s) /\ Write(s, TRUE) /\ session' = NextFile(s, f)
    /\ UNCHANGED <<disk, once, layout, setup, overlap, crashes, starts>>

(* The others execute it, and write the row when that is done. *)
Execute(s) ==
    /\ session[s].pc = "execute" /\ Snapshot(session[s].kind) /\ ~Raises(s)
    /\ <<session[s].at, Sql(s)>> \notin Bare
    /\ Executed(s)
    /\ session' = Goto(s, "record")
    /\ UNCHANGED <<disk, once, ledger, layout, setup, overlap, crashes, starts>>

(* Statement by statement, where the SQL does not allow a transaction. *)
ExecuteHalf(s) ==
    /\ session[s].pc = "execute" /\ session[s].kind = "shared" /\ ~Raises(s)
    /\ <<session[s].at, Sql(s)>> \in Bare
    /\ half' = [half EXCEPT ![session[s].at] = TRUE]
    /\ session' = Goto(s, "finish")
    /\ UNCHANGED <<disk, once, schema, ledger, layout, setup, hist, starts>>

ExecuteRest(s) ==
    /\ session[s].pc = "finish"
    /\ Executed(s)
    /\ session' = Goto(s, "record")
    /\ UNCHANGED <<disk, once, ledger, layout, setup, overlap, crashes, starts>>

(* On the service's ledger there is no column for a file name. *)
Record(s) ==
    /\ session[s].pc = "record"
    /\ IF Foreign(session[s].kind)
       THEN session' = Goto(s, "failed") /\ UNCHANGED ledger
       ELSE session' = NextFile(s, session[s].at) /\ Write(s, TRUE)
    /\ UNCHANGED <<disk, once, schema, half, layout, setup, hist, starts>>

(* Defect: a failed migration does not end the session. *)
RaisePassedOver(s) ==
    /\ session[s].pc = "execute" /\ Raises(s)
    /\ session' = NextFile(s, session[s].at)
    /\ UNCHANGED <<disk, once, db, setup, hist, starts>>

Raise(s) ==
    /\ session[s].pc = "execute" /\ Raises(s)
    /\ session' = Goto(s, IF session[s].kind = "helper" \/ Foreign(session[s].kind)
                          THEN "failed" ELSE "fail")
    /\ UNCHANGED <<disk, once, db, setup, hist, starts>>

(* The failure is recorded, over any row there is. *)
RecordFailure(s) ==
    /\ session[s].pc = "fail"
    /\ Write(s, FALSE)
    /\ session' = Goto(s, "failed")
    /\ UNCHANGED <<disk, once, schema, half, layout, setup, hist, starts>>

-----------------------------------------------------------------------------
(* What the two status commands report of a file, each from its ledger,    *)
(* which is empty when nobody applies by it.                               *)
Status(k, f) ==
    IF k \notin Kinds \/ ledger[k][f] = NoRow THEN "pending"
    ELSE IF ~ledger[k][f].ok THEN "failed"
    ELSE IF ledger[k][f].sum # disk[f] THEN "drifted"
    ELSE "applied"

(* The readiness checks, and with them setup local, look at the service's. *)
Reported(f) == Status("service", f)

Ready == \A f \in Files : Reported(f) = "applied"

(* setup local: its migrations done, it checks and boots or gives up.  The *)
(* check itself creates the service's ledger where there is none.          *)
Setup(s) ==
    /\ session[s].pc = "done" /\ session[s].kind = "run"
    /\ setup' = IF Ready THEN "up" ELSE "refused"
    /\ session' = [session EXCEPT ![s] = Closed]
    /\ layout' = IF layout = "none" THEN "service" ELSE layout
    /\ UNCHANGED <<disk, once, schema, half, ledger, hist, starts>>

(* The process of a session ends, and with it its connection. *)
Crash(s) ==
    /\ Open(s) /\ crashes < MaxCrashes
    /\ session' = [session EXCEPT ![s] = Closed]
    /\ crashes' = crashes + 1
    /\ UNCHANGED <<disk, once, db, setup, ran, times, overlap, starts>>

(* A developer changes a file. *)
Edit(f) ==
    /\ disk[f] < MaxVersion
    /\ disk' = [disk EXCEPT ![f] = @ + 1]
    /\ UNCHANGED <<once, db, session, setup, hist, starts>>

SessionNext(s) ==
    \/ Look(s) \/ Transact(s) \/ Execute(s) \/ ExecuteHalf(s) \/ ExecuteRest(s)
    \/ Record(s) \/ Raise(s) \/ RecordFailure(s) \/ Setup(s)

Next ==
    \/ \E s \in Sessions : SessionNext(s) \/ Crash(s)
    \/ \E s \in Sessions, k \in Kinds : Connect(s, k)
    \/ \E f \in Files : Edit(f)

Spec == Init /\ [][Next]_vars

-----------------------------------------------------------------------------
(* A migration that raises ends its session before any later one: none was *)
(* executed when one before it was not, whoever applies them, in whatever  *)
(* order sessions interleave, end and are started again.  setup local goes *)
(* on only over a database in which all are, and what either status        *)
(* command calls applied is.                                               *)
InOrder ==
    /\ \A f, g \in Files : g < f /\ (schema[f] # 0 \/ half[f]) => schema[g] # 0
    /\ \A f \in Files :
          setup = "up" \/ "applied" \in {Reported(f), Status("run", f)} => schema[f] # 0

(* What was executed in a transaction is on record, in the version that    *)
(* was executed, whenever a session dies: the row of run_migrations and of *)
(* the helper is part of the transaction.  Two open sessions are safe with *)
(* the helper; with run_migrations the slower one may fail and record that.*)
RecordedWhole ==
    \A f \in Files :
        /\ ran[f] = {"run"} /\ ~overlap => ledger["run"][f] = [sum |-> schema[f], ok |-> TRUE]
        /\ ran[f] = {"helper"} => ledger["helper"][f] = [sum |-> schema[f], ok |-> TRUE]

(* run_migrations never executes a migration it has applied, although the  *)
(* file is edited, a session dies or another kind of session comes between.*)
OnceByRun == ~overlap => \A f \in Files : times[f] <= 1
=============================================================================
