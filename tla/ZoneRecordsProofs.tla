------------------------- MODULE ZoneRecordsProofs -------------------------
(***************************************************************************)
(* Proofs about ZoneRecords, for any zones, keys, calls, worlds and faults.*)
(***************************************************************************)
EXTENDS ZoneRecords, TLAPS

(* A world is set up once: what works on its zones works on a world that   *)
(* is up, and the serials leave room for the setups to come.               *)
Staged ==
    /\ setup.pc # "idle" => ~up /\ rootOn
    /\ Signing \/ (\E c \in Calls : InFlight(c)) => up
    /\ \A c \in Calls : InFlight(c) => call[c].key \in Keys
    /\ serials # 0 /\ serials <= worlds + faults + (IF up THEN 1 ELSE 0)
    /\ setup.todo \subseteq Configured /\ tlds \subseteq Tlds
    /\ setup.pc \in {"idle", "corefile", "deploy"} => setup.todo = {}
    /\ setup.pc = "verify" /\ ~mock => setup.todo = {}
    /\ setup.pc \in {"write", "corefile", "deploy"} => ~mock

(* Zones that are there have a serial, so that no text is Absent.          *)
Serialled ==
    /\ \A z \in Zones : mem[z] = Absent \/ mem[z].serial # 0
    /\ \A c \in Calls : InFlight(c) => call[c].text.serial # 0

(* The first world's files come before its Corefile, that before its       *)
(* container, and none of them is taken away.                              *)
Complete(stanzas) == stanzas = Configured /\ \A z \in Configured : disk[z] # Absent

FilesFirst ==
    worlds = 1 =>
        /\ setup.pc # "idle" /\ ~mock => \A z \in Configured \ setup.todo : disk[z] # Absent
        /\ core.stanzas # {} => Complete(core.stanzas)
        /\ ~mock /\ (up \/ setup.pc \in {"deploy", "verify"}) => Complete(core.stanzas)
        /\ signer.pc = "write" => Complete(signer.text.stanzas)
        /\ server.status = "running" => /\ Complete(server.file.stanzas) /\ core.stanzas # {}
                                        /\ \A z \in Configured : server.zones[z] # Absent

(* As long as no call overlaps another and nothing fails, memory has the   *)
(* records asked for, and the disk what is in memory, but for the zone     *)
(* whose call is under way.                                                *)
Pending(z) == \E c \in Calls : call[c].pc \in {"merge", "flush"} /\ call[c].zone = z

Clean ==
    /\ \A c, d \in Calls : InFlight(c) /\ InFlight(d) => c = d
    /\ ~up => want = [z \in Zones |-> Absent.recs]
    /\ setup.pc # "idle" /\ ~mock => \A z \in Configured \ setup.todo : disk[z] = Generated[z]
    /\ up => \A z \in Zones : mem[z].recs = want[z]
    /\ up /\ ~mock => \A z \in Zones : mem[z] # Absent /\ ~Pending(z) => disk[z] = mem[z]
    /\ \A c \in Calls :
         LET x == call[c] IN
         /\ x.pc = "merge" => x.text = Upsert(mem[x.zone], x.key, x.text.recs[x.key])
         /\ x.pc = "flush" => x.text = mem[x.zone]

IInv ==
    /\ TypeOK /\ Staged /\ Serialled /\ FilesFirst
    /\ ~overlap /\ faults = 0 => Clean
-----------------------------------------------------------------------------
(* Texts. *)
LEMMA Constants ==
    /\ Root \in Zones /\ Platform \in Zones /\ 0 \in 0 .. Attempts /\ 0 \in 0 .. MaxFaults
    /\ 1 \in 1 .. MaxWorlds /\ 1 \in 0 .. MaxWorlds + MaxFaults + 1 /\ 0 \in 0 .. MaxWorlds + MaxFaults + 1
  BY ZoneAssumption DEF Zones

LEMMA ConfiguredZones ==
    ASSUME tlds \subseteq Tlds
    PROVE  Root \in Configured /\ Configured \subseteq Zones /\ Configured \cap Reverse = {}
  BY ZoneAssumption DEF Configured, Zones

LEMMA AbsentText ==
    /\ Absent \in Content /\ Absent.serial = 0
    /\ Absent.recs = [k \in Keys |-> NoValue] /\ \A t \in Content : t.serial # 0 => t # Absent
    /\ Nothing \in [Zones -> Content] /\ \A z \in Zones : Nothing[z] = Absent
    /\ \A t \in Content : t.recs \in [Keys -> Values \cup {NoValue}]
<1>1. Absent \in Content
  BY Constants DEF Absent, Content
<1>2. Absent.serial = 0 /\ Absent.recs = [k \in Keys |-> NoValue]
  BY DEF Absent
<1>3. Nothing \in [Zones -> Content] /\ \A z \in Zones : Nothing[z] = Absent
  BY <1>1 DEF Nothing
<1> QED BY <1>1, <1>2, <1>3 DEF Content

LEMMA EmptyText ==
    ASSUME NEW n \in 0 .. MaxWorlds + MaxFaults + 1
    PROVE  Empty(n) \in Content /\ Empty(n).serial = n /\ Empty(n).recs = Absent.recs
  BY DEF Empty, Content, Absent

LEMMA UpsertText ==
    ASSUME NEW t \in Content, NEW k \in Keys, NEW v \in Values \cup {NoValue},
           NEW u, u = Upsert(t, k, v)
    PROVE  /\ u \in Content /\ u.serial = t.serial
           /\ u.recs = [t.recs EXCEPT ![k] = v] /\ u.recs[k] = v
<1>1. t.recs \in [Keys -> Values \cup {NoValue}]
  BY DEF Content
<1>2. [t.recs EXCEPT ![k] = v] \in [Keys -> Values \cup {NoValue}]
  BY <1>1
<1>3. u = [t EXCEPT !.recs = [t.recs EXCEPT ![k] = v]]
  BY DEF Upsert
<1> QED BY <1>1, <1>2, <1>3 DEF Content

LEMMA GeneratedTexts ==
    ASSUME IInv, ~up
    PROVE  /\ Generated \in [Zones -> Content]
           /\ \A z \in Zones \ Configured : Generated[z] = Absent
           /\ \A z \in Configured : Generated[z].serial # 0 /\ Generated[z] # Absent
           /\ \A z \in Zones : Generated[z].recs = Absent.recs
<1>1. serials \in 0 .. MaxWorlds + MaxFaults + 1 /\ serials # 0
  BY ZoneAssumption DEF IInv, TypeOK, Staged
<1>2. \A z \in Zones : Serial(z) \in 0 .. MaxWorlds + MaxFaults + 1 /\ Serial(z) # 0
  BY <1>1, Constants DEF Serial
<1>3. \A z \in Zones : Generated[z] = IF z \in Configured THEN Empty(Serial(z)) ELSE Absent
  BY DEF Generated
<1>4. \A z \in Zones : /\ Empty(Serial(z)) \in Content /\ Empty(Serial(z)).serial = Serial(z)
                       /\ Empty(Serial(z)).recs = Absent.recs
  BY <1>2, EmptyText
<1>5. Generated \in [Zones -> Content]
  <2>1. \A z \in Zones : Generated[z] \in Content
    BY <1>3, <1>4, AbsentText
  <2> QED BY <2>1 DEF Generated
<1>6. Configured \subseteq Zones
  BY ConfiguredZones DEF IInv, Staged
<1> QED BY <1>2, <1>3, <1>4, <1>5, <1>6, AbsentText

LEMMA OpenedText ==
    ASSUME IInv, NEW z \in Zones
    PROVE  Opened(z) \in Content /\ (Opened(z) # Absent => Opened(z).serial # 0)
           /\ Opened(z).recs = mem[z].recs
  BY Constants, AbsentText, EmptyText DEF IInv, TypeOK, Serialled, Opened

LEMMA LoadedServer ==
    ASSUME TypeOK
    PROVE  Loaded \in Servers /\ Loaded.status = "running" /\ Loaded.file = core
           /\ \A z \in core.stanzas : Loaded.zones[z] = disk[z]
<1>1. \A z \in Zones : (IF z \in core.stanzas THEN disk[z] ELSE Absent) \in Content
  BY AbsentText DEF TypeOK
<1>2. core \in Corefiles /\ core.stanzas \subseteq Zones
  BY DEF TypeOK, Corefiles
<1> QED BY <1>1, <1>2 DEF Loaded, Servers

LEMMA NoFile == NoCorefile \in Corefiles /\ NoCorefile.stanzas = {}
  BY DEF NoCorefile, Corefiles

CallType == [pc : {"idle", "merge", "flush", "signal", "done"}, zone : Zones,
             key : Keys \cup {NoValue}, text : Content]

LEMMA NoCallType == /\ NoCall \in CallType /\ Ended \in CallType
                    /\ NoCall.pc = "idle" /\ Ended.pc = "done"
<1>1. NoCall \in CallType /\ NoCall.pc = "idle"
  BY Constants, AbsentText DEF NoCall, CallType
<1> QED BY <1>1 DEF Ended, CallType

LEMMA InitInv == ASSUME Init PROVE IInv
<1>1. TypeOK
  <2>1. call \in [Calls -> CallType]
    BY NoCallType DEF Init
  <2>2. server \in Servers /\ core \in Corefiles
    BY AbsentText, NoFile DEF Init, Servers
  <2>3. want \in [Zones -> [Keys -> Values \cup {NoValue}]]
    BY AbsentText DEF Init
  <2>4. mem \in [Zones -> Content] /\ disk \in [Zones -> Content]
    BY AbsentText DEF Init
  <2>5. setup \in [pc : {"idle", "write", "corefile", "deploy", "verify"},
                   todo : SUBSET Zones, tries : 0 .. Attempts]
    BY Constants DEF Init, NoSetup
  <2>6. signer \in [pc : {"idle", "write", "signal"}, text : Corefiles]
    BY NoFile DEF Init
  <2> QED BY <2>1, <2>2, <2>3, <2>4, <2>5, <2>6, Constants DEF Init, TypeOK, CallType
<1>2. setup.pc = "idle" /\ setup.todo = {} /\ ~Signing /\ \A c \in Calls : ~InFlight(c)
  BY NoCallType DEF Init, NoSetup, Signing, InFlight
<1>3. Staged /\ Serialled
  BY <1>2, AbsentText DEF Init, Staged, Serialled
<1>4. FilesFirst
  BY <1>2, NoFile DEF Init, FilesFirst
<1>5. Clean
  BY <1>2, NoCallType DEF Init, Clean, InFlight
<1> QED BY <1>1, <1>3, <1>4, <1>5 DEF IInv
-----------------------------------------------------------------------------
(* Phases 1 and 2.  While they work on the zones nothing else does. *)
SetupType == [pc : {"idle", "write", "corefile", "deploy", "verify"},
              todo : SUBSET Zones, tries : 0 .. Attempts]

LEMMA NobodyElse ==
    ASSUME IInv, setup.pc # "idle"
    PROVE  /\ ~up /\ ~Signing /\ signer.pc # "write" /\ \A c \in Calls : ~InFlight(c)
           /\ \A c \in Calls : call[c].pc \notin {"merge", "flush"}
  BY DEF IInv, Staged, Signing, InFlight

(* A step of the setup, which neither calls nor signs. *)
LEMMA SetupStep ==
    ASSUME IInv, ~up, ~Signing, \A c \in Calls : ~InFlight(c), setup' \in SetupType,
           disk' \in [Zones -> Content], core' \in Corefiles, server' \in Servers, usr1' \in BOOLEAN,
           faults' \in 0 .. MaxFaults, serials' \in Nat, faults <= faults',
           UNCHANGED <<spec, up, mem, call, signer, want, overlap, worlds>>,
           Staged', FilesFirst',
           ~overlap /\ faults' = 0 /\ setup'.pc # "idle" /\ ~mock =>
               \A z \in Configured \ setup'.todo : disk'[z] = Generated'[z]
    PROVE  IInv'
<1>1. UNCHANGED <<mock, tlds, rootOn, up, mem, call, signer, want, overlap, worlds>>
  BY DEF spec
<1>2. TypeOK'
  BY <1>1 DEF IInv, TypeOK, SetupType
<1>3. Serialled'
  BY <1>1 DEF IInv, Serialled, InFlight
<1>4. ASSUME ~overlap', faults' = 0 PROVE Clean'
  <2>1. faults = 0
    BY <1>4 DEF IInv, TypeOK
  <2>2. Clean
    BY <1>1, <1>4, <2>1 DEF IInv
  <2> QED BY <1>1, <1>4, <2>2 DEF Clean, InFlight, Configured
<1> QED BY <1>2, <1>3, <1>4 DEF IInv

LEMMA SetupKept == ASSUME IInv, Setup PROVE IInv'
<1>1. /\ UNCHANGED <<mock, tlds, rootOn, up, mem, disk, core, server, usr1, call, signer, want, overlap,
                     worlds, faults, serials>>
      /\ ~up /\ rootOn /\ setup.pc = "idle"
  BY DEF Setup, spec, net, hist, ShouldSkip
<1>2. setup'.pc = (IF mock THEN "verify" ELSE "write") /\ setup'.todo = Configured /\ setup'.tries = 0
  BY DEF Setup
<1>3. setup' \in SetupType
  BY Constants, ConfiguredZones DEF Setup, SetupType, IInv, Staged
<1>4. ~Signing /\ \A c \in Calls : ~InFlight(c)
  BY <1>1 DEF IInv, Staged
<1>5. Staged'
  BY <1>1, <1>2, <1>4 DEF IInv, Staged, Signing, InFlight, Configured
<1>6. FilesFirst'
  BY <1>1, <1>2 DEF IInv, FilesFirst, Complete, Configured
<1> QED BY <1>1, <1>2, <1>3, <1>4, <1>5, <1>6, SetupStep DEF IInv, TypeOK, spec, Configured

LEMMA WriteZoneKept == ASSUME IInv, NEW z \in Zones, WriteZone(z) PROVE IInv'
<1>1. /\ UNCHANGED <<mock, tlds, rootOn, up, mem, core, server, usr1, call, signer, want, overlap,
                     worlds, faults, serials>>
      /\ setup.pc = "write" /\ z \in setup.todo
  BY DEF WriteZone, spec, hist
<1>2. ~up /\ ~Signing /\ (\A c \in Calls : ~InFlight(c)) /\ signer.pc # "write"
  BY <1>1, NobodyElse
<1>3. z \in Configured /\ Configured' = Configured
  BY <1>1 DEF IInv, Staged, Configured
<1>4. disk' \in [Zones -> Content] /\ disk'[z] = Generated[z] /\ Generated[z] # Absent
      /\ \A y \in Zones : y # z => disk'[y] = disk[y]
  BY <1>2, <1>3, GeneratedTexts DEF WriteZone, IInv, TypeOK
<1>5. /\ setup' \in SetupType /\ setup'.todo = setup.todo \ {z}
      /\ setup'.pc = IF setup.todo = {z} THEN "corefile" ELSE "write"
  BY DEF WriteZone, IInv, TypeOK, SetupType
<1>6. Staged'
  BY <1>1, <1>2, <1>3, <1>5 DEF IInv, Staged, Signing, InFlight
<1>7. Configured \subseteq Zones /\ Generated' = Generated
  BY <1>1, <1>3, ConfiguredZones DEF IInv, Staged, Generated, Serial
<1>8. FilesFirst'
  BY <1>1, <1>2, <1>3, <1>4, <1>5, <1>7 DEF IInv, FilesFirst, Complete
<1>9. ~overlap /\ faults = 0 /\ ~mock => \A y \in Configured \ setup'.todo : disk'[y] = Generated[y]
  BY <1>1, <1>3, <1>4, <1>5, <1>7 DEF IInv, Clean
<1> QED BY <1>1, <1>2, <1>4, <1>5, <1>6, <1>7, <1>8, <1>9, SetupStep DEF IInv, TypeOK, spec

LEMMA WriteCorefileKept == ASSUME IInv, WriteCorefile PROVE IInv'
<1>1. /\ UNCHANGED <<mock, tlds, rootOn, up, mem, disk, server, usr1, call, signer, want, overlap,
                     worlds, faults, serials>>
      /\ setup.pc = "corefile" /\ setup.todo = {} /\ ~mock
  BY DEF WriteCorefile, spec, hist, IInv, Staged
<1>2. ~up /\ ~Signing /\ (\A c \in Calls : ~InFlight(c)) /\ signer.pc # "write"
  BY <1>1, NobodyElse
<1>3. Configured' = Configured /\ Configured \subseteq Zones /\ Root \in Configured
      /\ Generated' = Generated
  BY <1>1, ConfiguredZones DEF IInv, Staged, Configured, Generated, Serial
<1>4. core' \in Corefiles /\ core'.stanzas = Configured
  BY <1>3 DEF WriteCorefile, Corefiles
<1>5. setup' \in SetupType /\ setup'.pc = "deploy" /\ setup'.todo = {}
  BY <1>1 DEF WriteCorefile, IInv, TypeOK, SetupType
<1>6. Staged'
  BY <1>1, <1>2, <1>3, <1>5 DEF IInv, Staged, Signing, InFlight
<1>7. FilesFirst'
  BY <1>1, <1>2, <1>3, <1>4, <1>5 DEF IInv, FilesFirst, Complete
<1>8. ~overlap /\ faults = 0 => \A y \in Configured : disk[y] = Generated[y]
  BY <1>1 DEF IInv, Clean
<1> QED BY <1>1, <1>2, <1>3, <1>4, <1>5, <1>6, <1>7, <1>8, SetupStep DEF IInv, TypeOK, spec

LEMMA DeployKept == ASSUME IInv, Deploy PROVE IInv'
<1>1. /\ UNCHANGED <<mock, tlds, rootOn, up, mem, disk, core, call, signer, want, overlap,
                     worlds, faults, serials>>
      /\ setup.pc = "deploy" /\ setup.todo = {} /\ ~mock /\ usr1' \in BOOLEAN
  BY DEF Deploy, spec, hist, IInv, Staged, TypeOK
<1>2. ~up /\ ~Signing /\ (\A c \in Calls : ~InFlight(c)) /\ signer.pc # "write"
  BY <1>1, NobodyElse
<1>3. Configured' = Configured /\ Configured \subseteq Zones /\ Root \in Configured
      /\ Generated' = Generated
  BY <1>1, ConfiguredZones DEF IInv, Staged, Configured, Generated, Serial
<1>4. setup' \in SetupType /\ setup'.pc = "verify" /\ setup'.todo = {}
  BY <1>1 DEF Deploy, IInv, TypeOK, SetupType
<1>5. /\ server' \in Servers
      /\ \/ server' = server
         \/ server'.file = core /\ \A z \in core.stanzas : server'.zones[z] = disk[z]
  BY LoadedServer DEF Deploy, IInv, TypeOK
<1>6. Staged'
  BY <1>1, <1>2, <1>3, <1>4 DEF IInv, Staged, Signing, InFlight
<1>7. FilesFirst'
  BY <1>1, <1>2, <1>3, <1>4, <1>5 DEF IInv, FilesFirst, Complete
<1>8. ~overlap /\ faults = 0 => \A y \in Configured : disk[y] = Generated[y]
  BY <1>1 DEF IInv, Clean
<1> QED BY <1>1, <1>2, <1>3, <1>4, <1>5, <1>6, <1>7, <1>8, SetupStep DEF IInv, TypeOK, spec

LEMMA QueryKept == ASSUME IInv, Query PROVE IInv'
<1>1. /\ UNCHANGED <<mock, tlds, rootOn, up, mem, disk, core, server, usr1, call, signer, want, overlap,
                     worlds, faults, serials>>
      /\ setup.pc = "verify" /\ setup.todo = {} /\ ~mock
  BY DEF Query, spec, net, hist, IInv, Staged
<1>2. ~up /\ ~Signing /\ (\A c \in Calls : ~InFlight(c)) /\ signer.pc # "write"
  BY <1>1, NobodyElse
<1>3. Configured' = Configured /\ Configured \subseteq Zones /\ Generated' = Generated
  BY <1>1, ConfiguredZones DEF IInv, Staged, Configured, Generated, Serial
<1>4. setup' \in SetupType /\ setup'.pc = "verify" /\ setup'.todo = {}
  <2>1. setup \in SetupType /\ setup.tries + 1 \in 0 .. Attempts
    BY ZoneAssumption DEF Query, IInv, TypeOK, SetupType
  <2>2. setup' = [setup EXCEPT !.tries = setup.tries + 1]
    BY DEF Query
  <2> QED BY <1>1, <2>1, <2>2 DEF SetupType
<1>5. Staged'
  BY <1>1, <1>2, <1>3, <1>4 DEF IInv, Staged, Signing, InFlight
<1>6. FilesFirst'
  BY <1>1, <1>2, <1>3, <1>4 DEF IInv, FilesFirst, Complete
<1>7. ~overlap /\ faults = 0 => \A y \in Configured : disk[y] = Generated[y]
  BY <1>1 DEF IInv, Clean
<1> QED BY <1>1, <1>2, <1>3, <1>4, <1>5, <1>6, <1>7, SetupStep DEF IInv, TypeOK, spec

LEMMA SetupFailsKept == ASSUME IInv, SetupFails PROVE IInv'
<1>1. /\ UNCHANGED <<mock, tlds, rootOn, up, mem, disk, core, usr1, call, signer, want, overlap, worlds>>
      /\ setup.pc # "idle" /\ faults < MaxFaults /\ faults' = faults + 1 /\ serials' = serials + 1
      /\ setup' = NoSetup
  BY DEF SetupFails, spec
<1>2. ~up /\ ~Signing /\ (\A c \in Calls : ~InFlight(c)) /\ signer.pc # "write"
  BY <1>1, NobodyElse
<1>3. setup' \in SetupType /\ setup'.pc = "idle" /\ setup'.todo = {}
  BY <1>1, Constants DEF NoSetup, SetupType
<1>4. /\ faults' \in 0 .. MaxFaults /\ faults <= faults' /\ faults' # 0 /\ serials' \in Nat /\ serials' # 0
      /\ serials' <= worlds + faults' + 0
  BY <1>1, <1>2, ZoneAssumption DEF IInv, TypeOK, Staged
<1>5. server' \in Servers /\ (server' = server \/ server'.status # "running")
  BY DEF SetupFails, IInv, TypeOK, Servers
<1>6. Staged'
  BY <1>1, <1>2, <1>3, <1>4 DEF IInv, Staged, Signing, InFlight, Configured
<1>7. FilesFirst'
  BY <1>1, <1>2, <1>3, <1>5 DEF IInv, FilesFirst, Complete, Configured
<1> QED BY <1>1, <1>2, <1>3, <1>4, <1>5, <1>6, <1>7, SetupStep DEF IInv, TypeOK, spec

LEMMA VerifiedKept == ASSUME IInv, Verified PROVE IInv'
<1>1. /\ UNCHANGED <<mock, tlds, rootOn, disk, core, server, usr1, call, signer, want, overlap,
                     worlds, faults>>
      /\ setup.pc = "verify" /\ up' = TRUE /\ mem' = Generated /\ setup' = NoSetup
      /\ serials' = serials + 1
  BY DEF Verified, spec, net
<1>2. ~up /\ ~Signing /\ (\A c \in Calls : ~InFlight(c)) /\ signer.pc # "write"
      /\ \A c \in Calls : call[c].pc \notin {"merge", "flush"}
  BY <1>1, NobodyElse
<1>3. setup' \in SetupType /\ setup'.pc = "idle" /\ setup'.todo = {}
  BY <1>1, Constants DEF NoSetup, SetupType
<1>4. /\ Generated \in [Zones -> Content]
      /\ \A z \in Zones \ Configured : Generated[z] = Absent
      /\ \A z \in Configured : Generated[z].serial # 0
      /\ \A z \in Zones : Generated[z].recs = Absent.recs
  BY <1>2, GeneratedTexts
<1>5. TypeOK'
  BY <1>1, <1>3, <1>4 DEF IInv, TypeOK, SetupType
<1>6. Staged'
  BY <1>1, <1>2, <1>3, ZoneAssumption DEF IInv, TypeOK, Staged, Signing, InFlight, Configured
<1>7. Serialled'
  BY <1>1, <1>2, <1>4 DEF IInv, Serialled, InFlight
<1>8. FilesFirst'
  BY <1>1, <1>2, <1>3 DEF IInv, FilesFirst, Complete, Configured
<1>9. ASSUME ~overlap, faults = 0 PROVE Clean'
  <2>1. Clean
    BY <1>9 DEF IInv
  <2>2. ~mock => \A z \in Configured : disk[z] = Generated[z]
    BY <1>1, <2>1 DEF IInv, Staged, Clean
  <2>3. \A z \in Zones : mem'[z].recs = want'[z]
    BY <1>1, <1>2, <1>4, <2>1 DEF Clean
  <2>4. ~mock => \A z \in Zones : mem'[z] # Absent => disk'[z] = mem'[z]
    BY <1>1, <1>4, <2>2
  <2> QED BY <1>1, <1>2, <1>3, <2>1, <2>3, <2>4 DEF Clean, InFlight
<1> QED BY <1>1, <1>5, <1>6, <1>7, <1>8, <1>9 DEF IInv

-----------------------------------------------------------------------------
(* Records. *)
LEMMA Up == ASSUME IInv, up PROVE setup.pc = "idle"
  BY DEF IInv, Staged

(* A step of a call, or of nobody's, while the world is up: what it owes.  *)
LEMMA CallStep ==
    ASSUME IInv, up, setup.pc = "idle",
           UNCHANGED <<spec, up, core, server, setup, signer, worlds, faults, serials>>,
           usr1' \in BOOLEAN, overlap' \in BOOLEAN, call' \in [Calls -> CallType],
           mem' \in [Zones -> Content], disk' \in [Zones -> Content],
           want' \in [Zones -> [Keys -> Values \cup {NoValue}]],
           \A z \in Zones : mem'[z] = Absent \/ mem'[z].serial # 0,
           \A z \in Configured : disk[z] # Absent => disk'[z] # Absent,
           \A c \in Calls : InFlight(c)' => call'[c].text.serial # 0 /\ call'[c].key \in Keys,
           ~overlap' /\ faults = 0 => Clean'
    PROVE  IInv'
<1>1. UNCHANGED <<mock, tlds, rootOn, up, core, server, setup, signer, worlds, faults, serials>>
  BY DEF spec
<1>2. TypeOK'
  BY <1>1 DEF IInv, TypeOK, CallType
<1>3. Staged'
  BY <1>1 DEF IInv, Staged, Signing, Configured
<1>4. Serialled'
  BY DEF Serialled
<1>5. FilesFirst'
  BY <1>1 DEF IInv, FilesFirst, Complete, Configured
<1> QED BY <1>1, <1>2, <1>3, <1>4, <1>5 DEF IInv

LEMMA BeginKept ==
    ASSUME IInv, NEW c \in Calls, NEW z \in Zones, NEW k \in Keys, NEW v \in Values, Begin(c, z, k, v)
    PROVE  IInv'
<1>1. /\ UNCHANGED <<spec, up, disk, core, server, usr1, setup, signer, want, worlds, faults, serials>>
      /\ up /\ setup.pc = "idle" /\ call[c].pc = "idle" /\ Opened(z) # Absent
      /\ mem' = [mem EXCEPT ![z] = Opened(z)]
  BY DEF Begin, net
<1>2. PICK o \in Content : o = Opened(z) /\ o.serial # 0 /\ o.recs = mem[z].recs /\ o # Absent
  BY <1>1, OpenedText
<1>3. PICK t \in Content : t = Upsert(o, k, v) /\ t.serial # 0 /\ t.recs[k] = v
  <2>1. PICK t : t = Upsert(o, k, v)
    OBVIOUS
  <2>2. t \in Content /\ t.recs = [o.recs EXCEPT ![k] = v]
    BY <2>1, UpsertText
  <2>3. t.recs[k] = v
    BY <2>2, AbsentText
  <2>4. t.serial = o.serial
    BY <2>1 DEF Upsert, Content
  <2> QED BY <1>2, <2>1, <2>2, <2>3, <2>4
<1>4. PICK x \in CallType : x = [pc |-> "merge", zone |-> z, key |-> k, text |-> t]
  BY <1>3 DEF CallType
<1>5. call' = [call EXCEPT ![c] = x]
  BY <1>2, <1>3, <1>4 DEF Begin
<1>6. x.pc = "merge" /\ x.zone = z /\ x.key = k /\ x.text = t
  BY <1>4
<1>7. call \in [Calls -> CallType] /\ mem \in [Zones -> Content]
  BY DEF IInv, TypeOK, CallType
<1>8. call' \in [Calls -> CallType] /\ call'[c] = x /\ \A d \in Calls : d # c => call'[d] = call[d]
  BY <1>5, <1>7
<1>9. mem' \in [Zones -> Content] /\ mem'[z] = o /\ \A y \in Zones : y # z => mem'[y] = mem[y]
  BY <1>1, <1>2, <1>7
<1>10. \A y \in Zones : mem'[y] = Absent \/ mem'[y].serial # 0
  BY <1>2, <1>9 DEF IInv, Serialled
<1>11. \A d \in Calls : InFlight(d)' => call'[d].text.serial # 0 /\ call'[d].key \in Keys
  BY <1>3, <1>6, <1>8 DEF IInv, Serialled, Staged, InFlight
<1>12. ASSUME ~overlap', faults = 0 PROVE Clean'
  <2>1. ~overlap /\ \A d \in Calls : ~InFlight(d)
    BY <1>12 DEF Begin
  <2>2. Clean /\ \A d \in Calls : call[d].pc \notin {"merge", "flush"}
    BY <1>12, <2>1 DEF IInv, InFlight
  <2>3. \A d, e \in Calls : InFlight(d)' /\ InFlight(e)' => d = e
    BY <1>8, <2>1 DEF InFlight
  <2>4. \A y \in Zones : mem'[y].recs = want'[y]
    BY <1>1, <1>2, <1>9, <2>2 DEF Clean
  <2>5. Pending(z)'
    BY <1>6, <1>8 DEF Pending
  <2>6. ~mock => \A y \in Zones : mem'[y] # Absent /\ ~Pending(y)' => disk'[y] = mem'[y]
    BY <1>1, <1>9, <2>2, <2>5 DEF Clean, Pending
  <2>7. \A d \in Calls : /\ d # c => call'[d].pc \notin {"merge", "flush"}
                         /\ call'[c].text = Upsert(mem'[z], k, call'[c].text.recs[k])
    BY <1>3, <1>6, <1>8, <1>9, <2>2
  <2> QED BY <1>1, <1>6, <1>8, <2>3, <2>4, <2>6, <2>7 DEF Clean, spec
<1>13. overlap' \in BOOLEAN /\ disk \in [Zones -> Content] /\ usr1 \in BOOLEAN
       /\ want \in [Zones -> [Keys -> Values \cup {NoValue}]]
  BY DEF Begin, IInv, TypeOK
<1> QED BY <1>1, <1>8, <1>9, <1>10, <1>11, <1>12, <1>13, CallStep

(* The call that makes a step is the only one, while none overlaps.        *)
LEMMA Acting ==
    ASSUME IInv, NEW c \in Calls, InFlight(c)
    PROVE  /\ up /\ setup.pc = "idle" /\ call \in [Calls -> CallType] /\ call[c] \in CallType
           /\ call[c].zone \in Zones /\ call[c].key \in Keys /\ call[c].text \in Content
           /\ call[c].text.serial # 0
           /\ ~overlap /\ faults = 0 => Clean /\ \A d \in Calls : d # c => ~InFlight(d)
<1>1. up /\ setup.pc = "idle" /\ call[c].key \in Keys /\ call[c].text.serial # 0
  BY DEF IInv, Staged, Serialled
<1>2. call \in [Calls -> CallType] /\ call[c] \in CallType
  BY DEF IInv, TypeOK, CallType
<1>3. call[c].zone \in Zones /\ call[c].text \in Content
  BY <1>2 DEF CallType
<1>4. ~overlap /\ faults = 0 => Clean /\ \A d \in Calls : d # c => ~InFlight(d)
  BY DEF IInv, Clean
<1> QED BY <1>1, <1>2, <1>3, <1>4

LEMMA MergeKept == ASSUME IInv, NEW c \in Calls, Merge(c) PROVE IInv'
<1>1. /\ UNCHANGED <<spec, up, disk, core, server, usr1, setup, signer, overlap, worlds, faults, serials>>
      /\ call[c].pc = "merge" /\ InFlight(c)
      /\ mem' = [mem EXCEPT ![call[c].zone] = call[c].text]
  BY DEF Merge, net, InFlight
<1>2. PICK z \in Zones, k \in Keys, t \in Content : z = call[c].zone /\ k = call[c].key /\ t = call[c].text
  BY <1>1, Acting
<1>3. /\ up /\ setup.pc = "idle" /\ call \in [Calls -> CallType] /\ call[c] \in CallType /\ t.serial # 0
      /\ ~overlap /\ faults = 0 => Clean /\ \A d \in Calls : d # c => ~InFlight(d)
  BY <1>1, <1>2, Acting
<1>4. PICK x \in CallType : x = IF mock THEN Ended ELSE [call[c] EXCEPT !.pc = "flush"]
  BY <1>3, NoCallType DEF CallType
<1>5. call' = [call EXCEPT ![c] = x]
  BY <1>4 DEF Merge
<1>6. IF mock THEN x.pc = "done"
              ELSE x.pc = "flush" /\ x.zone = z /\ x.key = k /\ x.text = t
  BY <1>2, <1>3, <1>4, NoCallType DEF CallType
<1>7. call' \in [Calls -> CallType] /\ call'[c] = x /\ \A d \in Calls : d # c => call'[d] = call[d]
  BY <1>3, <1>5
<1>8. mem' \in [Zones -> Content] /\ mem'[z] = t /\ \A y \in Zones : y # z => mem'[y] = mem[y]
  BY <1>1, <1>2 DEF IInv, TypeOK
<1>9. \A y \in Zones : mem'[y] = Absent \/ mem'[y].serial # 0
  BY <1>3, <1>8 DEF IInv, Serialled
<1>10. \A d \in Calls : InFlight(d)' => call'[d].text.serial # 0 /\ call'[d].key \in Keys
  BY <1>3, <1>6, <1>7 DEF IInv, Serialled, Staged, InFlight
<1>11. /\ want' \in [Zones -> [Keys -> Values \cup {NoValue}]]
       /\ want'[z] = [want[z] EXCEPT ![k] = t.recs[k]]
       /\ \A y \in Zones : y # z => want'[y] = want[y]
  <2>1. want \in [Zones -> [Keys -> Values \cup {NoValue}]] /\ t.recs[k] \in Values \cup {NoValue}
    BY AbsentText DEF IInv, TypeOK
  <2>2. want' = [want EXCEPT ![z] = [want[z] EXCEPT ![k] = t.recs[k]]]
    BY <1>2 DEF Merge
  <2>3. [want[z] EXCEPT ![k] = t.recs[k]] \in [Keys -> Values \cup {NoValue}]
    BY <2>1
  <2> QED BY <2>1, <2>2, <2>3
<1>12. ASSUME ~overlap', faults = 0 PROVE Clean'
  <2>1. Clean /\ \A d \in Calls : d # c => ~InFlight(d)
    BY <1>1, <1>3, <1>12
  <2>2. t.recs = want'[z]
    <3>1. t = Upsert(mem[z], k, t.recs[k]) /\ mem[z].recs = want[z]
      BY <1>1, <1>2, <1>3, <2>1 DEF Clean
    <3>2. mem[z] \in Content /\ t.recs[k] \in Values \cup {NoValue}
      BY AbsentText DEF IInv, TypeOK
    <3>3. t.recs = [mem[z].recs EXCEPT ![k] = t.recs[k]]
      BY <3>1, <3>2, UpsertText
    <3> QED BY <1>11, <3>1, <3>3
  <2>3. \A y \in Zones : mem'[y].recs = want'[y]
    BY <1>3, <1>8, <1>11, <2>1, <2>2 DEF Clean
  <2>4. \A d \in Calls : d # c => call'[d].pc \notin {"merge", "flush"} /\ ~InFlight(d)'
    BY <1>7, <2>1 DEF InFlight
  <2>5. \A y \in Zones : y # z => ~Pending(y)
    BY <1>2, <2>1 DEF Pending, InFlight
  <2>6. ~mock => \A y \in Zones : mem'[y] # Absent /\ ~Pending(y)' => disk'[y] = mem'[y]
    <3>1. ~mock => Pending(z)'
      BY <1>6, <1>7 DEF Pending
    <3> QED BY <1>1, <1>3, <1>8, <2>1, <2>5, <3>1 DEF Clean
  <2>7. /\ call'[c].pc # "merge"
        /\ call'[c].pc = "flush" => call'[c].text = mem'[call'[c].zone]
    BY <1>6, <1>7, <1>8
  <2> QED BY <1>1, <1>3, <2>3, <2>4, <2>6, <2>7 DEF Clean, spec
<1>13. overlap' \in BOOLEAN /\ disk \in [Zones -> Content] /\ usr1 \in BOOLEAN
  BY <1>1 DEF IInv, TypeOK
<1> QED BY <1>1, <1>3, <1>7, <1>8, <1>9, <1>10, <1>11, <1>12, <1>13, CallStep

LEMMA FlushKept == ASSUME IInv, NEW c \in Calls, Flush(c) PROVE IInv'
<1>1. /\ UNCHANGED <<spec, up, mem, core, server, usr1, setup, signer, want, overlap, worlds, faults, serials>>
      /\ call[c].pc = "flush" /\ InFlight(c)
      /\ disk' = [disk EXCEPT ![call[c].zone] = call[c].text]
  BY DEF Flush, hist, InFlight
<1>2. PICK z \in Zones, t \in Content : z = call[c].zone /\ t = call[c].text
  BY <1>1, Acting
<1>3. /\ up /\ setup.pc = "idle" /\ call \in [Calls -> CallType] /\ call[c] \in CallType
      /\ t.serial # 0 /\ call[c].key \in Keys
      /\ ~overlap /\ faults = 0 => Clean /\ \A d \in Calls : d # c => ~InFlight(d)
  BY <1>1, <1>2, Acting
<1>4. PICK x \in CallType : /\ x = [call[c] EXCEPT !.pc = "signal"] \/ x = Ended
                            /\ call' = [call EXCEPT ![c] = x]
  <2>1. [call[c] EXCEPT !.pc = "signal"] \in CallType /\ Ended \in CallType
    BY <1>3, NoCallType DEF CallType
  <2> QED BY <2>1 DEF Flush
<1>5. call' = [call EXCEPT ![c] = x]
  BY <1>4
<1>6. x.pc = "done" \/ (x.pc = "signal" /\ x.zone = z /\ x.key = call[c].key /\ x.text = t)
  BY <1>2, <1>3, <1>4, NoCallType DEF CallType
<1>7. call' \in [Calls -> CallType] /\ call'[c] = x /\ \A d \in Calls : d # c => call'[d] = call[d]
  BY <1>3, <1>5
<1>8. disk' \in [Zones -> Content] /\ disk'[z] = t /\ t # Absent
      /\ \A y \in Zones : y # z => disk'[y] = disk[y]
  BY <1>1, <1>2, <1>3, AbsentText DEF IInv, TypeOK
<1>9. \A d \in Calls : InFlight(d)' => call'[d].text.serial # 0 /\ call'[d].key \in Keys
  BY <1>3, <1>6, <1>7 DEF IInv, Serialled, Staged, InFlight
<1>10. Configured \subseteq Zones
  BY ConfiguredZones DEF IInv, Staged
<1>11. ASSUME ~overlap', faults = 0 PROVE Clean'
  <2>1. Clean /\ \A d \in Calls : d # c => ~InFlight(d)
    BY <1>1, <1>3, <1>11
  <2>2. t = mem[z] /\ \A y \in Zones : y # z => ~Pending(y)
    BY <1>1, <1>2, <2>1 DEF Clean, Pending, InFlight
  <2>3. \A d \in Calls : call'[d].pc \notin {"merge", "flush"} /\ (d # c => ~InFlight(d)')
    BY <1>6, <1>7, <2>1 DEF InFlight
  <2>4. ~mock => \A y \in Zones : mem'[y] # Absent => disk'[y] = mem'[y]
    BY <1>1, <1>3, <1>8, <2>1, <2>2 DEF Clean
  <2> QED BY <1>1, <1>3, <2>1, <2>3, <2>4 DEF Clean, spec
<1>12. /\ overlap' \in BOOLEAN /\ usr1 \in BOOLEAN /\ mem \in [Zones -> Content]
       /\ want \in [Zones -> [Keys -> Values \cup {NoValue}]]
       /\ \A y \in Zones : mem[y] = Absent \/ mem[y].serial # 0
  BY <1>1 DEF IInv, TypeOK, Serialled
<1> QED BY <1>1, <1>3, <1>7, <1>8, <1>9, <1>10, <1>11, <1>12, CallStep

LEMMA SignalKept == ASSUME IInv, NEW c \in Calls, Signal(c) PROVE IInv'
<1>1. /\ UNCHANGED <<spec, up, mem, disk, core, server, setup, signer, want, overlap, worlds, faults, serials>>
      /\ call[c].pc = "signal" /\ InFlight(c) /\ call' = [call EXCEPT ![c] = Ended] /\ usr1' \in BOOLEAN
  BY DEF Signal, Signalled, hist, InFlight, IInv, TypeOK
<1>2. /\ up /\ setup.pc = "idle" /\ call \in [Calls -> CallType]
  BY <1>1, Acting
<1>3. /\ call' \in [Calls -> CallType] /\ call'[c].pc = "done"
      /\ \A d \in Calls : d # c => call'[d] = call[d]
  BY <1>1, <1>2, NoCallType
<1>4. \A d \in Calls : InFlight(d)' => call'[d].text.serial # 0 /\ call'[d].key \in Keys
  BY <1>3 DEF IInv, Serialled, Staged, InFlight
<1>5. ASSUME ~overlap', faults = 0 PROVE Clean'
  <2>1. Clean
    BY <1>1, <1>5 DEF IInv
  <2>2. \A d \in Calls : /\ InFlight(d)' => InFlight(d)
                         /\ call'[d].pc \in {"merge", "flush"} => call'[d] = call[d]
    BY <1>1, <1>3 DEF InFlight
  <2>3. ASSUME NEW y \in Zones, Pending(y) PROVE Pending(y)'
    <3>1. PICK d \in Calls : call[d].pc \in {"merge", "flush"} /\ call[d].zone = y
      BY <2>3 DEF Pending
    <3>2. call'[d] = call[d]
      BY <1>1, <1>3, <3>1
    <3> QED BY <3>1, <3>2 DEF Pending
  <2> QED BY <1>1, <1>2, <2>1, <2>2, <2>3 DEF Clean, spec
<1>6. /\ overlap' \in BOOLEAN /\ disk \in [Zones -> Content] /\ mem \in [Zones -> Content]
      /\ want \in [Zones -> [Keys -> Values \cup {NoValue}]]
      /\ \A y \in Zones : mem[y] = Absent \/ mem[y].serial # 0
  BY <1>1 DEF IInv, TypeOK, Serialled
<1> QED BY <1>1, <1>2, <1>3, <1>4, <1>5, <1>6, CallStep

LEMMA RemoveKept == ASSUME IInv, NEW z \in Zones, RemoveReverse(z) PROVE IInv'
<1>1. /\ UNCHANGED <<spec, up, core, server, usr1, setup, call, signer, worlds, faults, serials>>
      /\ up /\ setup.pc = "idle" /\ z \in Reverse
      /\ mem' = [mem EXCEPT ![z] = Absent] /\ disk' = [disk EXCEPT ![z] = Absent]
      /\ want' = [want EXCEPT ![z] = Absent.recs] /\ overlap' \in BOOLEAN
      /\ call \in [Calls -> CallType]
  BY DEF RemoveReverse, IInv, TypeOK, CallType
<1>2. Absent \in Content /\ Absent.recs \in [Keys -> Values \cup {NoValue}]
  BY AbsentText
<1>3. /\ mem' \in [Zones -> Content] /\ disk' \in [Zones -> Content]
      /\ want' \in [Zones -> [Keys -> Values \cup {NoValue}]]
      /\ mem'[z] = Absent /\ want'[z] = Absent.recs
      /\ \A y \in Zones : y # z => mem'[y] = mem[y] /\ disk'[y] = disk[y] /\ want'[y] = want[y]
  BY <1>1, <1>2 DEF IInv, TypeOK
<1>4. z \notin Configured /\ Configured \subseteq Zones
  BY <1>1, ConfiguredZones DEF IInv, Staged
<1>5. \A y \in Zones : mem'[y] = Absent \/ mem'[y].serial # 0
  BY <1>3 DEF IInv, Serialled
<1>6. ASSUME ~overlap', faults = 0 PROVE Clean'
  <2>1. ~overlap /\ \A d \in Calls : ~InFlight(d)
    BY <1>6 DEF RemoveReverse
  <2>2. Clean /\ \A d \in Calls : call[d].pc \notin {"merge", "flush"}
    BY <1>6, <2>1 DEF IInv, InFlight
  <2>3. \A y \in Zones : mem'[y].recs = want'[y]
    BY <1>1, <1>3, <2>2 DEF Clean
  <2>4. ~mock => \A y \in Zones : mem'[y] # Absent => disk'[y] = mem'[y]
    BY <1>1, <1>3, <2>2 DEF Clean, Pending
  <2> QED BY <1>1, <2>1, <2>2, <2>3, <2>4 DEF Clean, InFlight, spec
<1>7. \A d \in Calls : InFlight(d)' => call'[d].text.serial # 0 /\ call'[d].key \in Keys
  BY <1>1 DEF IInv, Serialled, Staged, InFlight
<1>8. usr1 \in BOOLEAN
  BY DEF IInv, TypeOK
<1> QED BY <1>1, <1>3, <1>4, <1>5, <1>6, <1>7, <1>8, CallStep

-----------------------------------------------------------------------------
(* The Corefile's blocks and CoreDNS. *)
LEMMA ServerStep ==
    ASSUME IInv, UNCHANGED <<spec, up, mem, disk, setup, call, want, overlap, worlds, serials>>,
           core' \in Corefiles, server' \in Servers, usr1' \in BOOLEAN,
           signer' \in [pc : {"idle", "write", "signal"}, text : Corefiles],
           faults' \in 0 .. MaxFaults, faults' = faults \/ faults' = faults + 1,
           Signing' => up, FilesFirst'
    PROVE  IInv'
<1>1. UNCHANGED <<mock, tlds, rootOn, up, mem, disk, setup, call, want, overlap, worlds, serials>>
  BY DEF spec
<1>2. TypeOK'
  BY <1>1 DEF IInv, TypeOK
<1>3. serials <= worlds + faults' + (IF up THEN 1 ELSE 0)
  <2>1. PICK m \in 0 .. MaxFaults, n \in Nat, w \in 1 .. MaxWorlds, s \in Nat :
            m = faults /\ n = faults' /\ w = worlds /\ s = serials
    BY ZoneAssumption DEF IInv, TypeOK
  <2>2. (n = m \/ n = m + 1) /\ s <= w + m + (IF up THEN 1 ELSE 0)
    BY <2>1 DEF IInv, Staged
  <2>3. s <= w + n + (IF up THEN 1 ELSE 0)
    BY <2>2, ZoneAssumption
  <2> QED BY <2>1, <2>3
<1>4. Staged'
  BY <1>1, <1>3 DEF IInv, Staged, InFlight, Configured
<1>5. Serialled'
  BY <1>1 DEF IInv, Serialled, InFlight
<1>6. ASSUME ~overlap', faults' = 0 PROVE Clean'
  <2>1. Clean
    BY <1>1, <1>6 DEF IInv, TypeOK
  <2>2. (mock \/ setup.pc = "idle" \/ Generated' = Generated) /\ Configured' = Configured
    BY <1>1 DEF Generated, Configured, Serial
  <2> QED BY <1>1, <2>1, <2>2 DEF Clean, InFlight, Pending
<1> QED BY <1>2, <1>4, <1>5, <1>6 DEF IInv

LEMMA WithBlockText ==
    ASSUME IInv, NEW z \in Zones
    PROVE  WithBlock(z) \in Corefiles /\ WithBlock(z).stanzas = core.stanzas
  BY DEF IInv, TypeOK, Corefiles, WithBlock

LEMMA ReadCorefileKept == ASSUME IInv, NEW z \in Zones, ReadCorefile(z) PROVE IInv'
<1>1. /\ UNCHANGED <<mock, tlds, rootOn, up, mem, disk, core, server, usr1, setup, call, want, overlap,
                     worlds, faults, serials>>
      /\ up /\ ~mock /\ signer' = [pc |-> "write", text |-> WithBlock(z)]
  BY DEF ReadCorefile, spec, net, hist
<1>2. signer' \in [pc : {"idle", "write", "signal"}, text : Corefiles]
      /\ signer'.text.stanzas = core.stanzas
  BY <1>1, WithBlockText
<1>3. FilesFirst'
  BY <1>1, <1>2 DEF IInv, FilesFirst, Complete, Configured
<1> QED BY <1>1, <1>2, <1>3, ServerStep DEF IInv, TypeOK, spec

LEMMA SignKept == ASSUME IInv, Sign PROVE IInv'
<1>1. /\ UNCHANGED <<mock, tlds, rootOn, up, mem, disk, server, usr1, setup, call, want, overlap,
                     worlds, faults, serials>>
      /\ signer.pc = "write" /\ core' = signer.text /\ signer' = [signer EXCEPT !.pc = "signal"]
  BY DEF Sign, spec, hist
<1>2. signer' \in [pc : {"idle", "write", "signal"}, text : Corefiles] /\ signer'.pc = "signal"
      /\ core' \in Corefiles /\ up
  BY <1>1 DEF IInv, TypeOK, Staged, Signing
<1>3. FilesFirst'
  BY <1>1, <1>2 DEF IInv, FilesFirst, Complete, Configured
<1> QED BY <1>1, <1>2, <1>3, ServerStep DEF IInv, TypeOK, spec

LEMMA SignedSignalKept == ASSUME IInv, SignedSignal PROVE IInv'
<1>1. /\ UNCHANGED <<mock, tlds, rootOn, up, mem, disk, core, server, setup, call, want, overlap,
                     worlds, faults, serials>>
      /\ signer.pc = "signal" /\ signer' = [pc |-> "idle", text |-> NoCorefile] /\ usr1' \in BOOLEAN
  BY DEF SignedSignal, Signalled, spec, hist, IInv, TypeOK
<1>2. signer' \in [pc : {"idle", "write", "signal"}, text : Corefiles] /\ signer'.pc = "idle"
  BY <1>1, NoFile
<1>3. FilesFirst'
  BY <1>1, <1>2 DEF IInv, FilesFirst, Complete, Configured
<1> QED BY <1>1, <1>2, <1>3, ServerStep DEF IInv, TypeOK, spec, Signing

LEMMA ReloadKept == ASSUME IInv, Reload PROVE IInv'
<1>1. /\ UNCHANGED <<mock, tlds, rootOn, up, mem, disk, core, setup, call, signer, want, overlap,
                     worlds, faults, serials>>
      /\ server.status = "running" /\ server' = Loaded /\ usr1' \in BOOLEAN
  BY DEF Reload, spec, hist
<1>2. /\ server' \in Servers /\ server'.status = "running" /\ server'.file = core
      /\ \A z \in core.stanzas : server'.zones[z] = disk[z]
  BY <1>1, LoadedServer DEF IInv
<1>3. FilesFirst'
  <2>1. worlds = 1 => core.stanzas # {} /\ Complete(core.stanzas)
    BY <1>1 DEF IInv, FilesFirst, Complete, Staged
  <2> QED BY <1>1, <1>2, <2>1 DEF IInv, FilesFirst, Complete, Configured
<1> QED BY <1>1, <1>2, <1>3, ServerStep DEF IInv, TypeOK, spec, Staged, Signing

(* A zone of the first world that is read again has its file. *)
LEMMA PollKept == ASSUME IInv, NEW z \in Zones, Poll(z) PROVE IInv'
<1>1. /\ UNCHANGED <<mock, tlds, rootOn, up, mem, disk, core, usr1, setup, call, signer, want, overlap,
                     worlds, faults, serials>>
      /\ server.status = "running" /\ z \in server.file.stanzas
      /\ server' = [server EXCEPT !.zones = [server.zones EXCEPT ![z] = disk[z]]]
  BY DEF Poll, spec, hist
<1>2. server.zones \in [Zones -> Content] /\ disk[z] \in Content
  BY DEF IInv, TypeOK, Servers
<1>3. PICK f \in [Zones -> Content] : f = [server.zones EXCEPT ![z] = disk[z]]
  BY <1>2
<1>4. f[z] = disk[z] /\ \A y \in Zones : y # z => f[y] = server.zones[y]
  BY <1>2, <1>3
<1>5. server' \in Servers /\ server'.status = "running" /\ server'.file = server.file /\ server'.zones = f
  BY <1>1, <1>3 DEF IInv, TypeOK, Servers
<1>6. FilesFirst'
  <2>1. Configured \subseteq Zones
    BY ConfiguredZones DEF IInv, Staged
  <2> QED BY <1>1, <1>4, <1>5, <2>1 DEF IInv, FilesFirst, Complete, Configured
<1> QED BY <1>1, <1>5, <1>6, ServerStep DEF IInv, TypeOK, spec, Staged, Signing

LEMMA StopKept == ASSUME IInv, Stop PROVE IInv'
<1>1. /\ UNCHANGED <<mock, tlds, rootOn, up, mem, disk, core, setup, call, signer, want, overlap,
                     worlds, serials>>
      /\ faults < MaxFaults /\ faults' = faults + 1 /\ usr1' = FALSE
      /\ server' = [server EXCEPT !.status = "exited"]
  BY DEF Stop, spec
<1>2. server' \in Servers /\ server'.status = "exited"
  BY <1>1 DEF IInv, TypeOK, Servers
<1>3. faults' \in 0 .. MaxFaults
  BY <1>1, ZoneAssumption DEF IInv, TypeOK
<1>4. FilesFirst'
  BY <1>1, <1>2 DEF IInv, FilesFirst, Complete, Configured
<1> QED BY <1>1, <1>2, <1>3, <1>4, ServerStep DEF IInv, TypeOK, spec, Staged, Signing

LEMMA NextWorldKept == ASSUME IInv, NextWorld PROVE IInv'
<1>1. /\ UNCHANGED <<mock, rootOn, disk, core, server, usr1, setup, call, signer, faults, serials>>
      /\ worlds < MaxWorlds /\ up /\ setup.pc = "idle" /\ (\A c \in Calls : ~InFlight(c)) /\ ~Signing
      /\ tlds' \subseteq Tlds /\ up' = FALSE /\ mem' = Nothing
      /\ want' = [z \in Zones |-> Absent.recs] /\ overlap' = FALSE /\ worlds' = worlds + 1
  BY DEF NextWorld, net
<1>2. worlds' \in 1 .. MaxWorlds /\ worlds' # 1 /\ serials <= worlds' + faults + 0
  BY <1>1, ZoneAssumption DEF IInv, TypeOK, Staged
<1>3. mem' \in [Zones -> Content] /\ want' \in [Zones -> [Keys -> Values \cup {NoValue}]]
      /\ \A z \in Zones : mem'[z] = Absent
  BY <1>1, AbsentText
<1>4. TypeOK'
  BY <1>1, <1>2, <1>3 DEF IInv, TypeOK
<1>5. \A c \in Calls : ~InFlight(c)' /\ call'[c].pc \notin {"merge", "flush"}
  BY <1>1 DEF InFlight
<1>6. Staged'
  <2>1. setup.todo \subseteq Configured' /\ setup'.pc = "idle" /\ ~Signing'
    <3>1. setup.todo = {}
      BY <1>1 DEF IInv, Staged
    <3> QED BY <1>1, <3>1 DEF Signing
  <2> QED BY <1>1, <1>2, <1>5, <2>1 DEF IInv, Staged
<1>7. Serialled' /\ FilesFirst'
  BY <1>2, <1>3, <1>5 DEF Serialled, FilesFirst
<1>8. Clean'
  BY <1>1, <1>5 DEF Clean
<1> QED BY <1>4, <1>6, <1>7, <1>8 DEF IInv

-----------------------------------------------------------------------------
LEMMA StepKept == ASSUME IInv, [Next]_vars PROVE IInv'
<1>1. CASE SetupNext
  BY <1>1, SetupKept, WriteZoneKept, WriteCorefileKept, DeployKept, QueryKept, VerifiedKept DEF SetupNext
<1>2. CASE SetupFails
  BY <1>2, SetupFailsKept
<1>3. CASE ServerNext
  BY <1>3, ReloadKept, PollKept DEF ServerNext
<1>4. CASE \E c \in Calls : CallNext(c)
  BY <1>4, MergeKept, FlushKept, SignalKept DEF CallNext
<1>5. CASE \E c \in Calls, z \in Zones, k \in Keys, v \in Values : Begin(c, z, k, v)
  BY <1>5, BeginKept
<1>6. CASE \E z \in Zones : RemoveReverse(z) \/ ReadCorefile(z)
  BY <1>6, RemoveKept, ReadCorefileKept
<1>7. CASE Sign \/ SignedSignal
  BY <1>7, SignKept, SignedSignalKept
<1>8. CASE Stop \/ NextWorld
  BY <1>8, StopKept, NextWorldKept
<1>9. CASE UNCHANGED vars
  <2>1. UNCHANGED <<mock, tlds, rootOn, up, mem, disk, core, server, usr1, setup, call, signer, want,
                    overlap, worlds, faults, serials>>
    BY <1>9 DEF vars, spec, net, hist
  <2> QED BY <2>1, ServerStep DEF IInv, TypeOK, spec, Staged, Signing, FilesFirst, Complete, Configured
<1> QED BY <1>1, <1>2, <1>3, <1>4, <1>5, <1>6, <1>7, <1>8, <1>9 DEF Next

(* The invariant holds of every state of ZoneRecords. *)
THEOREM Inductive == Spec => []IInv
<1>1. Init => IInv
  BY InitInv
<1>2. IInv /\ [Next]_vars => IInv'
  BY StepKept
<1> QED BY <1>1, <1>2, PTL DEF Spec

(* The zones, the Corefile and the container have the types the model      *)
(* declares, the setup, the calls and the signer too: no serial outgrows   *)
(* the setups made, and no call works on a zone of another world.          *)
THEOREM TypeCorrect == Spec => []TypeOK
<1>1. IInv => TypeOK
  BY DEF IInv
<1> QED BY <1>1, Inductive, PTL

(* A record of a call that has ended is in memory and, with Docker, in the *)
(* zone's file, with every other record of the zone, as long as no call    *)
(* came while another was under way and no setup failed.                   *)
THEOREM RecordsKept == Spec => []KeptAlone
<1>1. IInv => KeptAlone
  <2>1. SUFFICES ASSUME IInv, ~overlap, faults = 0, up, Quiet
                 PROVE  \A z \in Zones : /\ mem[z].recs = want[z]
                                         /\ ~mock /\ mem[z] # Absent => disk[z] = mem[z]
    BY DEF KeptAlone
  <2>2. Clean /\ \A z \in Zones : ~Pending(z)
    BY <2>1 DEF IInv, Quiet, InFlight, Pending
  <2> QED BY <2>1, <2>2 DEF Clean
<1> QED BY <1>1, Inductive, PTL

(* In the first world a running CoreDNS whose phases are completed has a   *)
(* stanza, and a zone loaded from its file, for every zone of the          *)
(* specification, whatever failed before.                                  *)
THEOREM CompletedIsServed == Spec => []CompletedServes
<1>1. IInv => CompletedServes
  BY DEF IInv, FilesFirst, Complete, CompletedServes
<1> QED BY <1>1, Inductive, PTL
=============================================================================
