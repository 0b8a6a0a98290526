---------------------------- MODULE ZoneRecords ----------------------------
(***************************************************************************)
(* DNSHandler: the zones of a world, in dns_output, in the files under     *)
(* zone_dir and in the CoreDNS container that serves them.  Phases 1 and 2 *)
(* generate the zones, write them and the Corefile and start CoreDNS;      *)
(* after that the phases and the consumers of one process add records and  *)
(* reverse zones, and each call is cut by its awaits: the new content is   *)
(* computed in a thread, stored in memory, written by another thread, and  *)
(* CoreDNS is told by SIGUSR1 to read everything again.                    *)
(*                                                                         *)
(* A record line is a key (name and type) with a value; the lines the      *)
(* generators write have absolute names, so no call ever replaces one, and *)
(* only the serial is kept of them.                                        *)
(***************************************************************************)
EXTENDS Naturals, FiniteSets

CONSTANTS Root, Platform, Tlds,  (* the zones phases 1 and 2 may set up     *)
          Reverse,               (* in-addr.arpa zones                      *)
          Signed,                (* the zones PKI asks to be signed         *)
          Keys, Values, NoValue,
          Ptr,                   (* the one record of a reverse zone        *)
          Calls,                 (* calls of add_zone_record, as they come  *)
          Attempts,              (* queries before verification gives up    *)
          MaxWorlds,             (* worlds set up one after the other       *)
          MaxFaults              (* failed setups, stops of the container    *)

Zones == {Root, Platform} \cup Tlds \cup Reverse

ASSUME ZoneAssumption ==
    /\ Root # Platform /\ {Root, Platform} \cap (Tlds \cup Reverse) = {}
    /\ Tlds \cap Reverse = {} /\ Signed \subseteq Zones
    /\ NoValue \notin Values /\ Ptr \in Keys /\ Calls \subseteq Nat
    /\ Attempts \in Nat \ {0} /\ MaxWorlds \in Nat \ {0} /\ MaxFaults \in Nat

(* The text of a zone file; Absent is a zone that has none. *)
Content == [serial : 0 .. MaxWorlds + MaxFaults + 1, recs : [Keys -> Values \cup {NoValue}]]
Absent  == [serial |-> 0, recs |-> [k \in Keys |-> NoValue]]
Nothing == [z \in Zones |-> Absent]

VARIABLES mock,    (* mock mode: no Docker                                  *)
          tlds,    (* the TLDs of the specification                         *)
          rootOn,  (* its dns.root.enabled                                  *)
          up,      (* dns_output is there: phases 1 and 2 are completed     *)
          mem,     (* dns_output["zone_files"]                              *)
          disk,    (* zone_dir/zones                                        *)
          core,    (* the Corefile: its stanzas, and those with dnssec      *)
          server,  (* the container, and what CoreDNS has loaded            *)
          usr1,    (* a signal CoreDNS has yet to handle                    *)
          setup,   (* execute: where it is, the files it has still to write,*)
                   (* and the queries it made                               *)
          call,    (* the calls of add_zone_record                          *)
          signer,  (* enable_dnssec: where it is and the Corefile it read   *)
          want,    (* history: the records asked for by calls that ended    *)
          overlap, (* history: whether a call came while another was made   *)
          worlds, faults, serials

hist == <<want, overlap, worlds, faults, serials>>
net  == <<disk, core, server, usr1>>
spec == <<mock, tlds, rootOn>>
vars == <<spec, up, mem, net, setup, call, signer, hist>>

NoCorefile == [stanzas |-> {}, signed |-> {}]
Corefiles  == [stanzas : SUBSET Zones, signed : SUBSET Zones]
Servers    == [status : {"none", "exited", "running"}, file : Corefiles, zones : [Zones -> Content]]

TypeOK ==
    /\ mock \in BOOLEAN /\ rootOn \in BOOLEAN
    /\ tlds \subseteq Tlds
    /\ up \in BOOLEAN
    /\ mem \in [Zones -> Content] /\ disk \in [Zones -> Content]
    /\ core \in Corefiles /\ server \in Servers /\ usr1 \in BOOLEAN
    /\ setup \in [pc : {"idle", "write", "corefile", "deploy", "verify"},
                 todo : SUBSET Zones, tries : 0 .. Attempts]
    /\ call \in [Calls -> [pc : {"idle", "merge", "flush", "signal", "done"}, zone : Zones,
                           key : Keys \cup {NoValue}, text : Content]]
    /\ signer \in [pc : {"idle", "write", "signal"}, text : Corefiles]
    /\ want \in [Zones -> [Keys -> Values \cup {NoValue}]]
    /\ overlap \in BOOLEAN
    /\ worlds \in 1 .. MaxWorlds /\ faults \in 0 .. MaxFaults /\ serials \in Nat

NoCall  == [pc |-> "idle", zone |-> Root, key |-> NoValue, text |-> Absent]
Ended  == [NoCall EXCEPT !.pc = "done"]
NoSetup == [pc |-> "idle", todo |-> {}, tries |-> 0]

Init ==
    /\ mock \in BOOLEAN /\ rootOn \in BOOLEAN
    /\ tlds = Tlds
    /\ up = FALSE /\ mem = Nothing
    /\ disk = Nothing /\ core = NoCorefile /\ usr1 = FALSE
    /\ server = [status |-> "none", file |-> NoCorefile, zones |-> Nothing]
    /\ setup = NoSetup
    /\ call = [c \in Calls |-> NoCall]
    /\ signer = [pc |-> "idle", text |-> NoCorefile]
    /\ want = [z \in Zones |-> Absent.recs]
    /\ overlap = FALSE
    /\ worlds = 1 /\ faults = 0 /\ serials = 1

-----------------------------------------------------------------------------
(* Phases 1 and 2. *)
Configured == {Root, Platform} \cup tlds

Empty(serial) == [serial |-> serial, recs |-> [k \in Keys |-> NoValue]]

(* The root's serial is the time; platform and TLD zones always have 1. *)
Serial(z) == IF z = Root THEN serials ELSE 1

Generated == [z \in Zones |-> IF z \in Configured THEN Empty(Serial(z)) ELSE Absent]

ShouldSkip == up

(* A disabled root has no name, which execute reads before anything else;  *)
(* so that setup fails.  The serial moves on, as the time does.            *)
Setup ==
    /\ setup.pc = "idle" /\ ~ShouldSkip /\ rootOn
    /\ setup' = [pc |-> IF mock THEN "verify" ELSE "write", todo |-> Configured, tries |-> 0]
    /\ UNCHANGED <<spec, up, mem, net, call, signer, hist>>

(* Defect: the container is started before the Corefile is written. *)
WriteZoneThenDeploy(z) ==
    /\ setup.pc = "write" /\ z \in setup.todo
    /\ disk' = [disk EXCEPT ![z] = Generated[z]]
    /\ setup' = [setup EXCEPT !.todo = @ \ {z},
                              !.pc = IF setup.todo = {z} THEN "deploy" ELSE "write"]
    /\ UNCHANGED <<spec, up, mem, core, server, usr1, call, signer, hist>>

WriteZone(z) ==
    /\ setup.pc = "write" /\ z \in setup.todo
    /\ z # Root => Root \notin setup.todo
    /\ z \in Tlds => Platform \notin setup.todo
    /\ disk' = [disk EXCEPT ![z] = Generated[z]]
    /\ setup' = [setup EXCEPT !.todo = @ \ {z},
                              !.pc = IF setup.todo = {z} THEN "corefile" ELSE "write"]
    /\ UNCHANGED <<spec, up, mem, core, server, usr1, call, signer, hist>>

(* Written anew: a dnssec block that was in it is gone. *)
WriteCorefile ==
    /\ setup.pc = "corefile"
    /\ core' = [stanzas |-> Configured, signed |-> {}]
    /\ setup' = [setup EXCEPT !.pc = "deploy"]
    /\ UNCHANGED <<spec, up, mem, disk, server, usr1, call, signer, hist>>

Loaded == [status |-> "running", file |-> core,
           zones |-> [z \in Zones |-> IF z \in core.stanzas THEN disk[z] ELSE Absent]]

(* A running container is kept as it is, anything else is replaced. *)
Deploy ==
    /\ setup.pc = "deploy"
    /\ server' = IF server.status = "running" THEN server ELSE Loaded
    /\ usr1' = (usr1 /\ server.status = "running")
    /\ setup' = [setup EXCEPT !.pc = "verify"]
    /\ UNCHANGED <<spec, up, mem, disk, core, call, signer, hist>>

(* Any answer with the right identifier verifies; in mock mode nothing is  *)
(* asked.                                                                  *)
Answered == server.status = "running"

Query ==
    /\ setup.pc = "verify" /\ ~mock
    /\ setup.tries < Attempts - 1
    /\ setup' = [setup EXCEPT !.tries = @ + 1]
    /\ UNCHANGED <<spec, up, mem, net, call, signer, hist>>

Verified ==
    /\ setup.pc = "verify" /\ (mock \/ Answered)
    /\ up' = TRUE
    /\ mem' = Generated
    /\ setup' = NoSetup
    /\ serials' = serials + 1
    /\ UNCHANGED <<spec, net, call, signer, want, overlap, worlds, faults>>

(* A step of execute raises, or the last query has no answer. *)
SetupFails ==
    /\ setup.pc # "idle" /\ faults < MaxFaults
    /\ \/ setup.pc \in {"write", "corefile"} /\ UNCHANGED server
       \/ /\ setup.pc = "deploy" /\ server.status # "running"
          /\ server' \in {server, [server EXCEPT !.status = "none"], [server EXCEPT !.status = "exited"]}
       \/ setup.pc = "verify" /\ ~mock /\ setup.tries = Attempts - 1 /\ UNCHANGED server
    /\ setup' = NoSetup
    /\ faults' = faults + 1
    /\ serials' = serials + 1
    /\ UNCHANGED <<spec, up, mem, disk, core, usr1, call, signer, want, overlap, worlds>>

-----------------------------------------------------------------------------
(* Records and reverse zones. *)
InFlight(c) == call[c].pc \in {"merge", "flush", "signal"}

(* Defect: the other records go. *)
UpsertAlone(text, k, v) == [Empty(text.serial) EXCEPT !.recs[k] = v]

Upsert(text, k, v) == [text EXCEPT !.recs[k] = v]

Opened(z) == IF mem[z] = Absent /\ z \in Reverse THEN Empty(1) ELSE mem[z]

(* add_zone_record up to its first await; add_reverse_zone opens the zone  *)
(* before.  Without dns_output, or without the zone, it raises, which      *)
(* changes nothing.                                                        *)
Begin(c, z, k, v) ==
    /\ call[c].pc = "idle" /\ up /\ setup.pc = "idle"
    /\ \A d \in Calls : call[d].pc = "idle" => c <= d
    /\ Opened(z) # Absent /\ (z \in Reverse => k = Ptr)
    /\ overlap' = (overlap \/ \E d \in Calls : InFlight(d))
    /\ mem' = [mem EXCEPT ![z] = Opened(z)]
    /\ call' = [call EXCEPT ![c] = [pc |-> "merge", zone |-> z, key |-> k,
                                    text |-> Upsert(Opened(z), k, v)]]
    /\ UNCHANGED <<spec, up, net, setup, signer, want, worlds, faults, serials>>

(* The thread is back: the content is stored whole, whatever was stored in *)
(* the meantime.  Without a directory of zones that is all.                *)
Merge(c) ==
    /\ call[c].pc = "merge"
    /\ mem' = [mem EXCEPT ![call[c].zone] = call[c].text]
    /\ call' = [call EXCEPT ![c] = IF mock THEN Ended ELSE [@ EXCEPT !.pc = "flush"]]
    /\ want' = [want EXCEPT ![call[c].zone][call[c].key] = call[c].text.recs[call[c].key]]
    /\ UNCHANGED <<spec, up, net, setup, signer, overlap, worlds, faults, serials>>

(* The context of the orchestrator has a Docker client.  That of a reload  *)
(* or of a request of the API has none: then the call signals nobody, and  *)
(* what it wrote waits for the signal of another one.                      *)
Flush(c) ==
    /\ call[c].pc = "flush"
    /\ disk' = [disk EXCEPT ![call[c].zone] = call[c].text]
    /\ \E client \in BOOLEAN :
         call' = [call EXCEPT ![c] = IF client THEN [@ EXCEPT !.pc = "signal"] ELSE Ended]
    /\ UNCHANGED <<spec, up, mem, core, server, usr1, setup, signer, hist>>

(* A container that is not there is no error. *)
Signalled == usr1' = (usr1 \/ server.status = "running")

(* Defect: the file plugin is trusted to notice. *)
SignalNobody(c) ==
    /\ call[c].pc = "signal"
    /\ call' = [call EXCEPT ![c] = Ended]
    /\ UNCHANGED <<spec, up, mem, net, setup, signer, hist>>

Signal(c) ==
    /\ call[c].pc = "signal"
    /\ Signalled
    /\ call' = [call EXCEPT ![c] = Ended]
    /\ UNCHANGED <<spec, up, mem, disk, core, server, setup, signer, hist>>

(* remove_reverse_zone has no await, and sends no signal. *)
RemoveReverse(z) ==
    /\ up /\ setup.pc = "idle" /\ z \in Reverse
    /\ overlap' = (overlap \/ \E d \in Calls : InFlight(d))
    /\ mem' = [mem EXCEPT ![z] = Absent]
    /\ disk' = [disk EXCEPT ![z] = Absent]
    /\ want' = [want EXCEPT ![z] = Absent.recs]
    /\ UNCHANGED <<spec, up, core, server, usr1, setup, call, signer, worlds, faults, serials>>

WithBlock(z) == [core EXCEPT !.signed = @ \cup (core.stanzas \cap {z})]

Signing == signer.pc \in {"write", "signal"}

(* enable_dnssec, on the platform's parent zones: it reads the Corefile,   *)
(* and writes it with a block more, unless there is one or no stanza.      *)
ReadCorefile(z) ==
    /\ ~Signing /\ up /\ ~mock /\ setup.pc = "idle"
    /\ z \in Signed /\ WithBlock(z) # core
    /\ signer' = [pc |-> "write", text |-> WithBlock(z)]
    /\ UNCHANGED <<spec, up, mem, net, setup, call, hist>>

Sign ==
    /\ signer.pc = "write"
    /\ core' = signer.text
    /\ signer' = [signer EXCEPT !.pc = "signal"]
    /\ UNCHANGED <<spec, up, mem, disk, server, usr1, setup, call, hist>>

SignedSignal ==
    /\ signer.pc = "signal"
    /\ Signalled
    /\ signer' = [pc |-> "idle", text |-> NoCorefile]
    /\ UNCHANGED <<spec, up, mem, disk, core, server, setup, call, hist>>

-----------------------------------------------------------------------------
(* CoreDNS: SIGUSR1 reloads the Corefile and every zone in it; the file    *)
(* plugin by itself reads a zone again only when its serial changed; a     *)
(* container that died is started again by Docker, one stopped is not.     *)
Reload ==
    /\ usr1 /\ server.status = "running"
    /\ server' = Loaded
    /\ usr1' = FALSE
    /\ UNCHANGED <<spec, up, mem, disk, core, setup, call, signer, hist>>

Poll(z) ==
    /\ server.status = "running" /\ z \in server.file.stanzas
    /\ disk[z].serial # server.zones[z].serial
    /\ server' = [server EXCEPT !.zones[z] = disk[z]]
    /\ UNCHANGED <<spec, up, mem, disk, core, usr1, setup, call, signer, hist>>

Stop ==
    /\ server.status = "running" /\ faults < MaxFaults
    /\ server' = [server EXCEPT !.status = "exited"]
    /\ usr1' = FALSE
    /\ faults' = faults + 1
    /\ UNCHANGED <<spec, up, mem, disk, core, setup, call, signer, want, overlap, worlds, serials>>

(* The world is torn down by DELETE /world and another bootstrapped.  The  *)
(* containers it removes are those named netengines_*, CoreDNS is          *)
(* netengine_coredns, and the zones stay on disk.  After the command       *)
(* `down`, which removes both, a world is a first one again.               *)
NextWorld ==
    /\ worlds < MaxWorlds /\ up /\ setup.pc = "idle"
    /\ \A c \in Calls : ~InFlight(c)
    /\ ~Signing
    /\ tlds' \in SUBSET Tlds
    /\ up' = FALSE /\ mem' = Nothing
    /\ want' = [z \in Zones |-> Absent.recs] /\ overlap' = FALSE
    /\ worlds' = worlds + 1
    /\ UNCHANGED <<mock, rootOn, net, setup, call, signer, faults, serials>>

ServerNext == Reload \/ \E z \in Zones : Poll(z)

SetupNext == Setup \/ (\E z \in Zones : WriteZone(z)) \/ WriteCorefile \/ Deploy \/ Query \/ Verified

CallNext(c) == Merge(c) \/ Flush(c) \/ Signal(c)

Next ==
    \/ SetupNext \/ SetupFails \/ ServerNext
    \/ \E c \in Calls : CallNext(c)
    \/ \E c \in Calls, z \in Zones, k \in Keys, v \in Values : Begin(c, z, k, v)
    \/ \E z \in Zones : RemoveReverse(z) \/ ReadCorefile(z)
    \/ Sign \/ SignedSignal
    \/ Stop \/ NextWorld

(* The event loop and its threads run, and CoreDNS handles its signals and *)
(* keeps its timers.                                                       *)
Fairness ==
    /\ WF_vars(Reload)
    /\ \A c \in Calls : WF_vars(CallNext(c))
    /\ WF_vars(Sign) /\ WF_vars(SignedSignal)

Spec     == Init /\ [][Next]_vars
FairSpec == Spec /\ Fairness

-----------------------------------------------------------------------------
Quiet == setup.pc = "idle" /\ ~Signing /\ \A c \in Calls : ~InFlight(c)

(* A record whose call has ended is in the zone, in memory and, with       *)
(* Docker, on disk, as long as nobody calls while another call is under    *)
(* way, which is what a bootstrap may count on.                            *)
KeptAlone ==
    ~overlap /\ faults = 0 /\ up /\ Quiet =>
        \A z \in Zones : /\ mem[z].recs = want[z]
                         /\ ~mock /\ mem[z] # Absent => disk[z] = mem[z]

(* In a first world, whenever phases 1 and 2 are done and CoreDNS runs, it *)
(* has a stanza for every zone of the specification and a file behind it,  *)
(* however often setup failed before: the Corefile and the files come      *)
(* before the container.                                                   *)
CompletedServes ==
    up /\ worlds = 1 /\ ~mock /\ server.status = "running" =>
        \A z \in Configured : z \in server.file.stanzas /\ server.zones[z] # Absent

(* What enable_dnssec, or a call with a Docker client, has written is      *)
(* served in the end, whatever overlaps it, as its signal follows its      *)
(* write: the file plugin alone would not notice, for the serial stays.    *)
UpToDate ==
    \/ server.status # "running"
    \/ server.file = core /\ \A z \in core.stanzas : server.zones[z] = disk[z]

FlushedServed ==
    /\ \A c \in Calls : (call[c].pc = "signal") ~> UpToDate
    /\ (signer.pc = "signal") ~> UpToDate
=============================================================================
