----------------------------- MODULE StartProofs -----------------------------
(***************************************************************************)
(* Proofs about joining an account, starting and restarting, and saving    *)
(* the settings.  The theorems are about the components' own               *)
(* specifications and then about the model the runs check, MCStart; the    *)
(* components' names for its slots are given once, here.                   *)
(***************************************************************************)
EXTENDS MCStart, Sequences, FiniteSetTheorems, TLAPS

nearbyOnly == s1
unix == s1
inv == s2
lock == s2
join == s3
launch == s3
talk == s4
again == s4
clicks == s5
command == s5
faults == s6
file == s6
read == s7
restarts == s8

USE DEF nearbyOnly, unix, inv, lock, join, launch, talk, again, clicks, command, faults, file,
        read, restarts

(***************************************************************************)
(* What MCStart does with them.  A behaviour of it is one of Settings, and *)
(* one of the component that its part says.                                *)
(***************************************************************************)
LEMMA PartStarts ==
    ASSUME MCInit
    PROVE  /\ Init
           /\ part = "enroll" => Join!Init
           /\ part = "instance" => Asli!Init
BY DEF MCInit

LEMMA PartGoesOn ==
    ASSUME [MCNext]_<<part, vars, slots>>
    PROVE  /\ part' = part
           /\ [Next]_vars
           /\ part = "enroll" => [Join!Next]_(Join!vars)
           /\ part = "instance" => [Asli!Next]_(Asli!vars)
<1>1. CASE UNCHANGED <<part, vars, slots>>
    <2>1. UNCHANGED part /\ UNCHANGED vars /\ UNCHANGED <<s1, s2, s3, s4, s5, s6, s7, s8>>
        BY <1>1 DEF slots
    <2>2. UNCHANGED Join!vars
        BY <2>1 DEF Join!vars
    <2>3. UNCHANGED Asli!vars
        BY <2>1 DEF Asli!vars
    <2> QED
        BY <2>1, <2>2, <2>3
<1>2. CASE MCNext
    BY <1>2 DEF MCNext
<1> QED
    BY <1>1, <1>2

(***************************************************************************)
(* The settings.  The threads of one Asli, however many and wherever they  *)
(* crash, write config.json whole: module Settings without commands of a   *)
(* terminal implements module Register.                                    *)
(*                                                                         *)
(* Commands are left out by a hypothesis of each result, since with them   *)
(* the promise is not kept (README, "Where the words and the code part").  *)
(***************************************************************************)

Places == {"idle", "loaded", "created", "written"}

TypeOK ==
    /\ conf \in Files
    /\ tmp \in Files \cup {None}
    /\ at \in [Writers -> Places]
    /\ held \in [Writers -> Configs \cup {None}]
    /\ open \in [Writers -> Nat]
    /\ saves \in Nat

Saving(w) == at[w] \in {"created", "written"}

(* WRITING is held through a save, so one thread saves at a time.          *)
OneSaves ==
    /\ \A w \in Writers : Saving(w) => "asli" \in writing
    /\ \A v, w \in Writers : Saving(v) /\ Saving(w) => v = w

(* A thread past load_config has a configuration in its hands.             *)
HoldsConfig == \A w \in Writers : at[w] # "idle" => held[w] \in Configs

(* config.tmp is never config.json by another name; while a thread saves,  *)
(* it is there, the file that thread has open, and holds nothing and then  *)
(* all of what the thread means to write.                                  *)
TmpIsMine ==
    /\ tmp # None => tmp.inode # conf.inode
    /\ \A w \in Writers : at[w] = "created" =>
          tmp # None /\ tmp.inode = open[w] /\ tmp.holds = Empty
    /\ \A w \in Writers : at[w] = "written" => tmp # None /\ tmp.holds = held[w]

IInv ==
    /\ TypeOK
    /\ conf.holds \in Configs
    /\ OneSaves
    /\ HoldsConfig
    /\ TmpIsMine

(* There is always an inode nobody uses: there are more than the writers   *)
(* and config.json can take.                                               *)
LEMMA UnusedExists ==
    ASSUME TypeOK
    PROVE  /\ Unused \in Nat
           /\ Unused # conf.inode
<1> DEFINE S == 0 .. Cardinality(Writers) + 1
           R == {open[w] : w \in Writers}
<1>1. IsFiniteSet(Writers) /\ Cardinality(Writers) \in Nat
  BY SettingsAssumption, FS_CardinalityType DEF Writers
<1>2. Cardinality(S) = Cardinality(Writers) + 2
  BY <1>1, FS_Interval
<1>3. IsFiniteSet(R) /\ Cardinality(R) <= Cardinality(Writers)
  <2>1. open \in Surjection(Writers, R)
    BY DEF TypeOK, Surjection
  <2> QED
    BY <1>1, <2>1, FS_Surjection
<1>4. /\ IsFiniteSet(R \cup {conf.inode})
      /\ Cardinality(R \cup {conf.inode}) <= Cardinality(Writers) + 1
  <2> HIDE DEF R
  <2>1. Cardinality(R) \in Nat
    BY <1>3, FS_CardinalityType
  <2>2. /\ IsFiniteSet(R \cup {conf.inode})
        /\ Cardinality(R \cup {conf.inode}) \in {Cardinality(R), Cardinality(R) + 1}
    BY <1>3, FS_AddElement
  <2> QED
    BY <1>1, <1>3, <2>1, <2>2
<1>5. ~(S \subseteq R \cup {conf.inode})
  <2> SUFFICES ASSUME S \subseteq R \cup {conf.inode} PROVE FALSE
    OBVIOUS
  <2>1. Cardinality(S) <= Cardinality(R \cup {conf.inode})
    BY <1>4, FS_Subset
  <2>2. Cardinality(R \cup {conf.inode}) \in Nat
    BY <1>4, FS_CardinalityType
  <2> QED
    BY <1>1, <1>2, <1>4, <2>1, <2>2
<1>6. \E i \in S : i # conf.inode /\ \A w \in Writers : i # open[w]
  BY <1>5
<1> QED
  BY <1>1, <1>6 DEF Unused

(* At the start nobody saves.                                              *)
LEMMA InitIInv == Init => IInv
<1> SUFFICES ASSUME Init PROVE IInv
  OBVIOUS
<1> USE DEF Init
<1>1. First \in Configs
  BY DEF First, Configs
<1>2. TypeOK
  BY <1>1 DEF TypeOK, Files, Places
<1>3. OneSaves /\ HoldsConfig /\ TmpIsMine
  BY DEF OneSaves, Saving, HoldsConfig, TmpIsMine
<1> QED
  BY <1>1, <1>2, <1>3 DEF IInv

(* Loading changes only what the thread holds.                             *)
LEMMA LoadIInv ==
    ASSUME IInv, NEW w \in Writers, Load(w)
    PROVE  IInv'
<1> USE DEF Goes
<1>1. PICK f \in Sets(w) : held' = [held EXCEPT ![w] = [conf.holds EXCEPT ![f] = saves + 1]]
  BY DEF Load
<1>2. [conf.holds EXCEPT ![f] = saves + 1] \in Configs
  <2>1. conf.holds \in [Fields -> Nat] /\ saves + 1 \in Nat
    BY DEF IInv, TypeOK, Configs
  <2> QED
    BY <2>1 DEF Configs
<1>3. TypeOK' /\ conf'.holds \in Configs
  BY <1>1, <1>2 DEF IInv, TypeOK, Load, Places
<1>4. OneSaves'
  BY DEF IInv, TypeOK, OneSaves, Saving, Load
<1>5. HoldsConfig'
  BY <1>1, <1>2 DEF IInv, TypeOK, HoldsConfig, Load
<1>6. TmpIsMine'
  BY <1>1 DEF IInv, TypeOK, TmpIsMine, Load
<1> QED
  BY <1>3, <1>4, <1>5, <1>6 DEF IInv

(* Opening config.tmp: no other thread is saving, since WRITING is free.   *)
LEMMA CreateIInv ==
    ASSUME Commands = {}, IInv, NEW w \in Writers, Create(w)
    PROVE  IInv'
<1> USE DEF Goes
<1>1. PICK i : /\ i = IF tmp = None THEN Unused ELSE tmp.inode
               /\ tmp' = [inode |-> i, holds |-> Empty]
               /\ open' = [open EXCEPT ![w] = i]
  BY DEF Create
<1>2. i \in Nat /\ i # conf.inode
  BY <1>1, UnusedExists DEF IInv, TypeOK, TmpIsMine, Files
<1>3. "asli" \notin writing /\ "asli" \in writing'
  BY DEF Create, MayWrite, Process, Writers
<1>4. tmp' \in Files /\ tmp' # None
  BY <1>1, <1>2, SettingsAssumption DEF Files
<1>5. TypeOK' /\ conf'.holds \in Configs
  BY <1>1, <1>2, <1>4 DEF IInv, TypeOK, Create, Places
<1>6. \A v \in Writers : v # w => ~Saving(v) /\ at'[v] = at[v]
  BY <1>3 DEF IInv, TypeOK, OneSaves, Create
<1>7. at'[w] = "created"
  BY DEF IInv, TypeOK, Create
<1>8. OneSaves'
  BY <1>3, <1>6 DEF OneSaves, Saving
<1>9. HoldsConfig'
  BY <1>6, <1>7 DEF IInv, TypeOK, HoldsConfig, Create
<1>10. TmpIsMine'
  <2>1. tmp'.inode = i /\ tmp'.holds = Empty /\ open'[w] = i /\ conf' = conf
    BY <1>1 DEF IInv, TypeOK, Create
  <2> QED
    BY <1>2, <1>4, <1>6, <1>7, <2>1 DEF TmpIsMine, Saving
<1> QED
  BY <1>5, <1>8, <1>9, <1>10 DEF IInv

(* Writing it: into config.tmp, and all of it, since that is empty and     *)
(* nobody else writes.                                                     *)
LEMMA WriteAllEffect ==
    ASSUME IInv, NEW w \in Writers, WriteAll(w)
    PROVE  /\ tmp # None
           /\ tmp' = [tmp EXCEPT !.holds = held[w]]
           /\ conf' = conf
<1>1. tmp # None /\ tmp.inode = open[w] /\ tmp.holds = Empty
  BY DEF IInv, TmpIsMine, WriteAll
<1>2. tmp.inode # conf.inode
  BY <1>1 DEF IInv, TmpIsMine
<1>3. conf # None
  BY SettingsAssumption DEF IInv, TypeOK
<1>4. Wrote(tmp, w) = {[tmp EXCEPT !.holds = held[w]]}
  BY <1>1 DEF Wrote
<1>5. Wrote(conf, w) = {conf}
  BY <1>1, <1>2 DEF Wrote
<1> QED
  BY <1>1, <1>4, <1>5 DEF WriteAll

(* So the thread leaves config.tmp holding its configuration.              *)
LEMMA WriteAllIInv ==
    ASSUME IInv, NEW w \in Writers, WriteAll(w)
    PROVE  IInv'
<1> USE DEF Goes
<1>1. /\ tmp # None
      /\ tmp' = [tmp EXCEPT !.holds = held[w]]
      /\ conf' = conf
  BY WriteAllEffect
<1>2. held[w] \in Configs
  BY DEF IInv, HoldsConfig, WriteAll
<1>3. tmp' \in Files /\ tmp'.inode = tmp.inode /\ tmp'.holds = held[w]
  BY <1>1, <1>2 DEF IInv, TypeOK, Files
<1>4. TypeOK' /\ conf'.holds \in Configs
  BY <1>1, <1>3 DEF IInv, TypeOK, WriteAll, Places
<1>5. /\ at'[w] = "written" /\ Saving(w)
      /\ \A v \in Writers : v # w => ~Saving(v) /\ at'[v] = at[v]
  BY DEF IInv, TypeOK, OneSaves, WriteAll, Saving
<1>6. OneSaves'
  BY <1>5 DEF IInv, OneSaves, Saving, WriteAll
<1>7. HoldsConfig'
  BY <1>2, <1>5 DEF IInv, HoldsConfig, WriteAll
<1>8. TmpIsMine'
  <2>1. tmp' # None
    BY <1>3, SettingsAssumption
  <2>2. tmp'.inode # conf'.inode
    BY <1>1, <1>3 DEF IInv, TmpIsMine
  <2>3. held' = held
    BY DEF WriteAll
  <2> QED
    BY <1>3, <1>5, <2>1, <2>2, <2>3 DEF TmpIsMine, Saving
<1> QED
  BY <1>4, <1>6, <1>7, <1>8 DEF IInv

(* Renaming it: what becomes config.json is what this thread wrote.        *)
LEMMA RenameEffect ==
    ASSUME IInv, NEW w \in Writers, Rename(w)
    PROVE  conf' = tmp /\ tmp' = None /\ tmp \in Files /\ conf'.holds = held[w]
BY DEF IInv, TypeOK, TmpIsMine, Rename

(* And nobody is saving after it.                                          *)
LEMMA RenameIInv ==
    ASSUME IInv, NEW w \in Writers, Rename(w)
    PROVE  IInv'
<1> USE DEF Goes
<1>1. conf' = tmp /\ tmp' = None /\ tmp \in Files /\ conf'.holds = held[w]
  BY RenameEffect
<1>2. held[w] \in Configs
  BY DEF IInv, HoldsConfig, Rename
<1>3. TypeOK' /\ conf'.holds \in Configs
  BY <1>1, <1>2 DEF IInv, TypeOK, Rename, Places
<1>4. /\ at'[w] = "idle"
      /\ \A v \in Writers : v # w => ~Saving(v) /\ at'[v] = at[v] /\ held'[v] = held[v]
  BY DEF IInv, TypeOK, OneSaves, Rename, Saving
<1>5. OneSaves'
  BY <1>4 DEF OneSaves, Saving
<1>6. HoldsConfig'
  BY <1>4 DEF IInv, HoldsConfig
<1>7. TmpIsMine'
  BY <1>1, <1>4 DEF TmpIsMine, Saving
<1> QED
  BY <1>3, <1>5, <1>6, <1>7 DEF IInv

(* A crash leaves the files as they are, and nobody saving.                *)
LEMMA CrashIInv ==
    ASSUME Commands = {}, IInv, Crash("asli")
    PROVE  IInv'
<1>1. at' = [w \in Writers |-> "idle"] /\ held' = [w \in Writers |-> None]
  BY DEF Crash, Process, Writers
<1>2. TypeOK' /\ conf'.holds \in Configs
  BY <1>1 DEF IInv, TypeOK, Crash, Places
<1>3. OneSaves' /\ HoldsConfig'
  BY <1>1 DEF OneSaves, HoldsConfig, Saving
<1>4. TmpIsMine'
  BY <1>1 DEF IInv, TmpIsMine, Crash
<1> QED
  BY <1>2, <1>3, <1>4 DEF IInv

(* Every step of the threads keeps the invariant.                          *)
LEMMA NextIInv ==
    ASSUME Commands = {}, IInv, [Next]_vars
    PROVE  IInv'
<1>1. ASSUME NEW w \in Writers, Load(w) PROVE IInv'
  BY <1>1, LoadIInv
<1>2. ASSUME NEW w \in Writers, Create(w) PROVE IInv'
  BY <1>2, CreateIInv
<1>3. ASSUME NEW w \in Writers, WriteAll(w) PROVE IInv'
  BY <1>3, WriteAllIInv
<1>4. ASSUME NEW w \in Writers, Rename(w) PROVE IInv'
  BY <1>4, RenameIInv
<1>5. ASSUME Crash("asli") PROVE IInv'
  BY <1>5, CrashIInv
<1>6. ASSUME UNCHANGED vars PROVE IInv'
  BY <1>6 DEF vars, IInv, TypeOK, OneSaves, Saving, HoldsConfig, TmpIsMine
<1> QED
  BY <1>1, <1>2, <1>3, <1>4, <1>5, <1>6 DEF Next

(* The configurations written and not renamed yet, as Register sees them   *)
Written == {held[w] : w \in {v \in Writers : at[v] = "written"}}

(* A step that leaves config.json alone is a stutter of the register or    *)
(* one that changes only what is offered; the rename commits what the      *)
(* thread that renames had written, and nothing new is offered with it.    *)
LEMMA StepImplements ==
    ASSUME Commands = {}, IInv, [Next]_vars
    PROVE  Whole!Next \/ UNCHANGED <<conf.holds, Written>>
<1> USE DEF Goes
<1>1. ASSUME NEW w \in Writers, Load(w) \/ Create(w) \/ WriteAll(w)
      PROVE  conf' = conf
  BY <1>1, WriteAllEffect DEF Load, Create
<1>2. ASSUME NEW w \in Writers, Rename(w)
      PROVE  conf.holds' \in Written /\ Written' \subseteq Written
  <2>1. conf'.holds = held[w] /\ at[w] = "written"
    BY <1>2, RenameEffect DEF Rename
  <2>2. \A v \in Writers : at'[v] = "written" => at[v] = "written" /\ held'[v] = held[v]
    BY <1>2 DEF IInv, TypeOK, Rename
  <2> QED
    BY <2>1, <2>2 DEF Written
<1>3. ASSUME Crash("asli")
      PROVE  conf' = conf
  BY <1>3 DEF Crash
<1>4. ASSUME UNCHANGED vars
      PROVE  UNCHANGED <<conf.holds, Written>>
  BY <1>4 DEF vars, Written
<1> QED
  BY <1>1, <1>2, <1>3, <1>4 DEF Next, Whole!Next, Whole!Commit, Whole!Offer, Written

(* Without commands, config.json is a register: it always holds a          *)
(* configuration somebody saved, and passes from one to the next in one    *)
(* step, whatever the number of threads and wherever Asli crashes.         *)
THEOREM ConfigsAreWhole ==
    ASSUME Commands = {}
    PROVE  /\ Spec => WholeConfigs
           /\ MCSpec => WholeConfigs
<1>1. Init => Whole!Init
  BY DEF Init, Whole!Init
<1>2. IInv /\ [Next]_vars => [Whole!Next]_<<conf.holds, Written>>
  BY StepImplements
<1>3. IInv /\ [Next]_vars => IInv'
  BY NextIInv
<1>4. Spec => WholeConfigs
  BY <1>1, <1>2, <1>3, InitIInv, PTL DEF Spec, WholeConfigs, Whole!Spec, Written
<1>5. MCSpec => WholeConfigs
  <2>1. MCInit => Init
    BY PartStarts
  <2>2. [MCNext]_<<part, vars, slots>> => [Next]_vars
    BY PartGoesOn
  <2> QED
    BY <1>1, <1>2, <1>3, <2>1, <2>2, InitIInv, PTL DEF MCSpec, WholeConfigs, Whole!Spec, Written
<1> QED
  BY <1>4, <1>5

(* So a start of Asli never finds it empty or torn.                        *)
THEOREM ConfigsParse ==
    ASSUME Commands = {}
    PROVE  Spec => []AlwaysParses
<1>1. IInv => AlwaysParses
  BY SettingsAssumption DEF IInv, AlwaysParses
<1>2. IInv /\ [Next]_vars => IInv'
  BY NextIInv
<1> QED
  BY <1>1, <1>2, InitIInv, PTL DEF Spec

(***************************************************************************)
(* Enrolment.  The answer is the person's first decision, once there is    *)
(* one: until then all decisions are still in the invitation's queue, and  *)
(* no end has been told anything.                                          *)
(***************************************************************************)
Invitations ==
    [at : {"running", "waiting", "done"}, up : BOOLEAN, heard : SUBSET Attempts,
     asking : Seq(Attempts), commands : Seq(Join!Decision), answer : {None} \cup Join!Decision,
     out : BOOLEAN, ack : BOOLEAN, confirmed : BOOLEAN, over : BOOLEAN,
     outcome : {"none", "approved", "declined", "expired", "failed"}]
Attempted ==
    [at : {"running", "waiting", "done", "joined", "over"}, up : BOOLEAN, coming : BOOLEAN,
     nearby : BOOLEAN, found : {"none", "granted", "declined"}, over : BOOLEAN,
     outcome : {"none", "granted", "declined", "expired"}]

JoinTypes ==
    /\ nearbyOnly \in BOOLEAN
    /\ inv \in Invitations /\ join \in [Attempts -> Attempted]
    /\ clicks \in Seq(Join!Decision)

FirstCounts(i) ==
    IF i.answer = None THEN i.commands = clicks
                       ELSE clicks # <<>> /\ i.answer = clicks[1]

(* Only an answer is sent, and what an attempt found is what the answer    *)
(* says to it.                                                             *)
Told(e, j, i) ==
    /\ e.coming \/ e.nearby => i.answer # None
    /\ e.found # "none" => i.answer # None /\ e.found = Join!Judge(i.answer, j)
Sent(i) == i.out => i.answer # None

(* With Same Network Only, a request comes from this network, and so does  *)
(* what the person can decide on.                                          *)
Nearby(a, c) ==
    nearbyOnly => a \in Seq(Near) /\ c \in Seq({d \in Join!Decision : d.to \in Near})

JoinInv ==
    /\ JoinTypes
    /\ FirstCounts(inv) /\ Sent(inv)
    /\ \A j \in Attempts : Told(join[j], j, inv)
    /\ Nearby(inv.asking, clicks)

LEMMA JoinInit == ASSUME Join!EnrollAssumption PROVE Join!Init => JoinInv
<1> SUFFICES ASSUME Join!Init PROVE JoinInv
    OBVIOUS
<1>1. Join!Opened \in Invitations /\ Join!Started \in Attempted
    <2>1. <<>> \in Seq(Attempts) /\ <<>> \in Seq(Join!Decision)
        OBVIOUS
    <2>2. QED
        BY <2>1 DEF Join!Opened, Join!Started, Invitations, Attempted
<1>2. JoinTypes
    BY <1>1 DEF Join!Init, JoinTypes
<1>3. FirstCounts(inv) /\ Sent(inv)
    BY DEF Join!Init, Join!Opened, FirstCounts, Sent
<1>4. \A j \in Attempts : Told(join[j], j, inv)
    BY DEF Join!Init, Join!Started, Told
<1>5. Nearby(inv.asking, clicks)
    BY DEF Join!Init, Join!Opened, Nearby
<1>6. QED
    BY <1>2, <1>3, <1>4, <1>5 DEF JoinInv

(* Steps of the invitation that leave the answer, the decisions and the    *)
(* requests alone.                                                         *)
LEMMA InviteGoesOn ==
    ASSUME JoinInv, inv' \in Invitations, UNCHANGED <<nearbyOnly, join, clicks>>,
           inv'.answer = inv.answer, inv'.commands = inv.commands, inv'.asking = inv.asking,
           inv'.out => inv.answer # None
    PROVE  JoinInv'
BY DEF JoinInv, JoinTypes, FirstCounts, Sent, Told, Nearby

LEMMA LeftGoesOn ==
    ASSUME JoinInv, NEW o \in {"none", "approved", "declined", "expired", "failed"},
           Join!Left(o), UNCHANGED <<nearbyOnly, join, clicks>>
    PROVE  JoinInv'
<1>1. inv \in Invitations
    BY DEF JoinInv, JoinTypes
<1>2. /\ inv' \in Invitations
      /\ inv'.answer = inv.answer /\ inv'.commands = inv.commands /\ inv'.asking = inv.asking
      /\ inv'.out = FALSE
    BY <1>1 DEF Join!Left, Join!Off, Join!Done, Invitations
<1>3. QED
    BY <1>2, InviteGoesOn

(* A request taken is that of an attempt, and with Same Network Only of    *)
(* one nearby.                                                             *)
LEMMA Requested ==
    ASSUME JoinInv, NEW j \in Attempts, NEW a \in {inv.asking, Join!Taken(j)},
           a = inv.asking \/ ~nearbyOnly \/ j \in Near,
           NEW i \in Invitations, i.asking = a, i.answer = inv.answer, i.commands = inv.commands,
           i.out = inv.out, inv' = i, UNCHANGED <<nearbyOnly, join, clicks>>
    PROVE  JoinInv'
<1>1. a \in {inv.asking, Append(inv.asking, j)}
    BY DEF Join!Taken
<1>2. inv.asking \in Seq(Attempts)
    BY DEF JoinInv, JoinTypes, Invitations
<1>3. nearbyOnly => a \in Seq(Near)
    <2> SUFFICES ASSUME nearbyOnly PROVE a \in Seq(Near)
        OBVIOUS
    <2>1. inv.asking \in Seq(Near)
        BY DEF JoinInv, Nearby
    <2>2. CASE a = inv.asking
        BY <2>1, <2>2
    <2>3. CASE j \in Near /\ a = Append(inv.asking, j)
        BY <2>1, <2>3
    <2>4. QED
        BY <1>1, <2>2, <2>3
<1>4. QED
    BY <1>3 DEF JoinInv, JoinTypes, FirstCounts, Sent, Told, Nearby

LEMMA TakenTyped ==
    ASSUME JoinInv, NEW j \in Attempts PROVE Join!Taken(j) \in Seq(Attempts)
<1>1. inv.asking \in Seq(Attempts)
    BY DEF JoinInv, JoinTypes, Invitations
<1>2. Append(inv.asking, j) \in Seq(Attempts)
    BY <1>1
<1>3. QED
    BY <1>1, <1>2 DEF Join!Taken

LEMMA InviteSteps ==
    ASSUME Join!EnrollAssumption, JoinInv,
           Join!InviteThread \/ Join!InviteBreaks \/ Join!InviteCloses \/ Join!ShowOutcome
    PROVE  JoinInv'
<1>1. inv \in Invitations /\ inv.commands \in Seq(Join!Decision) /\ inv.asking \in Seq(Attempts)
    BY DEF JoinInv, JoinTypes, Invitations
<1>2. CASE Join!InviteUp \/ Join!InviteCloses \/ Join!ShowOutcome \/ Join!OnSent
    <2>1. /\ inv' \in Invitations /\ UNCHANGED <<nearbyOnly, join, clicks>>
          /\ inv'.answer = inv.answer /\ inv'.commands = inv.commands /\ inv'.asking = inv.asking
          /\ inv'.out = inv.out
        BY <1>1, <1>2 DEF Join!InviteUp, Join!InviteCloses, Join!ShowOutcome, Join!OnSent, Invitations
    <2>2. QED
        BY <2>1, InviteGoesOn DEF JoinInv, Sent
<1>3. CASE Join!InviteAgain
    <2>1. PICK b \in BOOLEAN : b = (inv.answer # None)
        OBVIOUS
    <2>2. inv' \in {[inv EXCEPT !.at = "done", !.outcome = "expired"],
                    [inv EXCEPT !.at = "running", !.out = b]}
        BY <1>3, <2>1, Zenon DEF Join!InviteAgain
    <2>3. /\ inv' \in Invitations
          /\ inv'.answer = inv.answer /\ inv'.commands = inv.commands /\ inv'.asking = inv.asking
          /\ inv'.out \in {inv.out, b}
        BY <1>1, <2>2 DEF Invitations
    <2>4. inv'.out => inv.answer # None
        BY <2>1, <2>3 DEF JoinInv, Sent
    <2>5. QED
        BY <1>3, <2>3, <2>4, InviteGoesOn DEF Join!InviteAgain
<1>4. CASE Join!CannotDecide
    BY <1>4, LeftGoesOn DEF Join!CannotDecide
<1>5. CASE Join!PumpEnds
    <2>1. (IF Join!Settled = "none" THEN "expired" ELSE Join!Settled)
              \in {"none", "approved", "declined", "expired", "failed"}
        BY DEF Join!Settled
    <2>2. QED
        BY <1>5, <2>1, LeftGoesOn DEF Join!PumpEnds
<1>6. CASE Join!InviteBreaks
    <2>1. Join!Settled \in {"none", "approved", "declined", "expired", "failed"}
        BY DEF Join!Settled
    <2>2. QED
        BY <1>6, <2>1, LeftGoesOn DEF Join!InviteBreaks
<1>7. CASE \E j \in Attempts : Join!OnRequest(j)
    <2>1. PICK j \in Attempts : Join!OnRequest(j)
        BY <1>7
    <2> DEFINE a == IF Join!TakesOverRelay THEN Join!Taken(j) ELSE inv.asking
    <2>2. a \in Seq(Attempts) /\ a \in {inv.asking, Join!Taken(j)}
          /\ (a = inv.asking \/ ~nearbyOnly)
        BY <1>1, TakenTyped DEF Join!TakesOverRelay
    <2>3. inv' = [inv EXCEPT !.heard = @ \ {j}, !.asking = a]
        BY <2>1 DEF Join!OnRequest
    <2> HIDE DEF a
    <2>4. /\ inv' \in Invitations /\ inv'.asking = a /\ inv'.answer = inv.answer
          /\ inv'.commands = inv.commands /\ inv'.out = inv.out
        BY <1>1, <2>2, <2>3 DEF Invitations
    <2>5. UNCHANGED <<nearbyOnly, join, clicks>>
        BY <2>1 DEF Join!OnRequest
    <2>6. QED
        BY <2>2, <2>4, <2>5, Requested
<1>8. CASE Join!Decide
    <2> DEFINE d == Join!Decided(Head(inv.commands))
    <2>1. inv.commands # <<>> /\ UNCHANGED <<nearbyOnly, join, clicks>>
        BY <1>8 DEF Join!Decide
    <2>2. Head(inv.commands) \in Join!Decision /\ Tail(inv.commands) \in Seq(Join!Decision)
        BY <1>1, <2>1
    <2>3. d \in {None} \cup Join!Decision
        BY <1>1, <2>2 DEF Join!Decided, Invitations
    <2>4. /\ clicks # <<>> /\ d = clicks[1] /\ (inv.answer # None => d = inv.answer)
        BY <1>1, <2>1 DEF JoinInv, JoinTypes, FirstCounts, Join!Decided
    <2>5. PICK b \in BOOLEAN : b = (inv.out \/ d # inv.answer)
        OBVIOUS
    <2> HIDE DEF d
    <2>6. inv' = [inv EXCEPT !.commands = Tail(inv.commands), !.answer = d, !.out = b]
        BY <1>8, <2>5, Zenon DEF Join!Decide, d
    <2>7. /\ inv' \in Invitations /\ inv'.answer = d /\ inv'.commands = Tail(inv.commands)
          /\ inv'.asking = inv.asking /\ inv'.out = b
        BY <1>1, <2>2, <2>3, <2>6 DEF Invitations
    <2>8. d # None
        <3>1. clicks[1] \in Join!Decision
            BY <2>4 DEF JoinInv, JoinTypes
        <3>2. QED
            BY <2>4, <3>1 DEF Join!EnrollAssumption
    <2>9. FirstCounts(inv)' /\ Sent(inv)'
        BY <2>1, <2>4, <2>7, <2>8 DEF FirstCounts, Sent
    <2>10. \A j \in Attempts : Told(join[j], j, inv)'
        BY <2>1, <2>4, <2>7, <2>8 DEF JoinInv, Told
    <2>11. JoinTypes' /\ Nearby(inv.asking, clicks)'
        BY <2>1, <2>7 DEF JoinInv, JoinTypes, Nearby
    <2>12. QED
        BY <2>9, <2>10, <2>11 DEF JoinInv
<1>9. QED
    BY <1>2, <1>3, <1>4, <1>5, <1>6, <1>7, <1>8 DEF Join!InviteThread

LEMMA ClickStep ==
    ASSUME JoinInv, NEW d \in Join!Decision, Join!Click(d) PROVE JoinInv'
<1>1. inv \in Invitations /\ inv.commands \in Seq(Join!Decision) /\ clicks \in Seq(Join!Decision)
      /\ inv.asking \in Seq(Attempts)
    BY DEF JoinInv, JoinTypes, Invitations
<1>2. /\ clicks' = Append(clicks, d) /\ inv' = [inv EXCEPT !.commands = Append(@, d)]
      /\ UNCHANGED <<nearbyOnly, join>>
    BY DEF Join!Click
<1>3. clicks' \in Seq(Join!Decision) /\ Append(inv.commands, d) \in Seq(Join!Decision)
    BY <1>1, <1>2
<1>4. /\ inv' \in Invitations /\ inv'.commands = Append(inv.commands, d)
      /\ inv'.answer = inv.answer /\ inv'.asking = inv.asking /\ inv'.out = inv.out
    BY <1>1, <1>2, <1>3 DEF Invitations
<1>5. FirstCounts(inv)'
    <2>1. CASE inv.answer = None
        BY <1>2, <1>4, <2>1 DEF JoinInv, FirstCounts
    <2>2. CASE inv.answer # None
        <3>1. clicks # <<>> /\ inv.answer = clicks[1]
            BY <2>2 DEF JoinInv, FirstCounts
        <3>2. clicks' # <<>> /\ clicks'[1] = clicks[1]
            BY <1>1, <1>2, <3>1
        <3>3. QED
            BY <1>4, <2>2, <3>1, <3>2 DEF FirstCounts
    <2>3. QED
        BY <2>1, <2>2
<1>6. Nearby(inv.asking, clicks)'
    <2> SUFFICES ASSUME nearbyOnly
                 PROVE  clicks' \in Seq({e \in Join!Decision : e.to \in Near})
        BY <1>2, <1>4 DEF JoinInv, Nearby
    <2>1. inv.asking \in Seq(Near) /\ clicks \in Seq({e \in Join!Decision : e.to \in Near})
        BY DEF JoinInv, Nearby
    <2>2. d.to \in Near
        BY <2>1 DEF Join!Click, Join!Shown
    <2>3. QED
        BY <1>2, <2>1, <2>2
<1>7. JoinTypes' /\ Sent(inv)' /\ \A j \in Attempts : Told(join[j], j, inv)'
    BY <1>2, <1>3, <1>4 DEF JoinInv, JoinTypes, Sent, Told
<1>8. QED
    BY <1>5, <1>6, <1>7 DEF JoinInv

(* Steps of the attempts. *)
LEMMA AttemptGoesOn ==
    ASSUME JoinInv, UNCHANGED <<nearbyOnly, inv, clicks>>, NEW j \in Attempts,
           NEW e \in Attempted, join' = [join EXCEPT ![j] = e], Told(e, j, inv)
    PROVE  JoinInv'
<1>1. join \in [Attempts -> Attempted]
    BY DEF JoinInv, JoinTypes
<1>2. join' \in [Attempts -> Attempted]
    BY <1>1
<1>3. \A k \in Attempts : Told(join[k], k, inv)'
    BY <1>1 DEF JoinInv, Told
<1>4. QED
    BY <1>2, <1>3 DEF JoinInv, JoinTypes, FirstCounts, Sent, Nearby

LEMMA FoundRight ==
    ASSUME JoinInv, NEW j \in Attempts, join[j].coming \/ join[j].nearby
    PROVE  /\ Join!Found(j) \in {"none", "granted", "declined"}
           /\ inv.answer # None
           /\ Join!Found(j) # "none" => Join!Found(j) = Join!Judge(inv.answer, j)
<1>1. Told(join[j], j, inv) /\ join[j] \in Attempted
    BY DEF JoinInv, JoinTypes
<1>2. Join!Judge(inv.answer, j) \in {"none", "granted", "declined"}
    BY DEF Join!Judge
<1>3. QED
    BY <1>1, <1>2 DEF Told, Attempted, Join!Found

LEMMA JoinSteps ==
    ASSUME JoinInv, NEW j \in Attempts,
           \/ Join!JoinThread(j) \/ Join!JoinUp(j) \/ Join!JoinBreaks(j) \/ Join!JoinGivesUp(j)
           \/ Join!TalkAnswers(j)
    PROVE  JoinInv'
<1>1. /\ join \in [Attempts -> Attempted] /\ join[j] \in Attempted /\ Told(join[j], j, inv)
      /\ UNCHANGED <<nearbyOnly, inv, clicks>>
    BY DEF JoinInv, JoinTypes, Join!JoinThread, Join!OnAnswer, Join!TakeNearbyAnswer, Join!AskerEnds,
           Join!JoinAgain, Join!FinishJoin, Join!JoinUp, Join!JoinBreaks, Join!JoinGivesUp,
           Join!TalkAnswers
<1>2. SUFFICES \E e \in Attempted : join' = [join EXCEPT ![j] = e] /\ Told(e, j, inv)
    BY <1>1, AttemptGoesOn
<1>3. ASSUME NEW e \in Attempted, join' = [join EXCEPT ![j] = e], e.found = join[j].found,
             e.coming => join[j].coming, e.nearby => join[j].nearby \/ inv.answer # None
      PROVE  Told(e, j, inv)
    BY <1>1, <1>3 DEF Told
<1>4. CASE Join!OnAnswer(j)
    <2> DEFINE e == [join[j] EXCEPT !.coming = FALSE, !.found = Join!Found(j)]
    <2>1. e \in Attempted /\ e.found = Join!Found(j)
        BY <1>1, <1>4, FoundRight DEF Attempted, Join!OnAnswer
    <2>2. join' = [join EXCEPT ![j] = e]
        BY <1>1, <1>4 DEF Join!OnAnswer
    <2>3. QED
        BY <1>4, <2>1, <2>2, FoundRight DEF Told, Join!OnAnswer
<1>5. CASE Join!TakeNearbyAnswer(j)
    <2> DEFINE e == [join[j] EXCEPT !.nearby = FALSE, !.found = Join!Found(j)]
    <2>1. e \in Attempted /\ e.found = Join!Found(j)
        BY <1>1, <1>5, FoundRight DEF Attempted, Join!TakeNearbyAnswer
    <2>2. join' = [join EXCEPT ![j] = e]
        BY <1>1, <1>5 DEF Join!TakeNearbyAnswer
    <2>3. QED
        BY <1>5, <2>1, <2>2, FoundRight DEF Told, Join!TakeNearbyAnswer
<1>6. CASE \E o \in {"none", "granted", "declined", "expired"} : Join!JoinLeft(j, o)
    <2>1. PICK o \in {"none", "granted", "declined", "expired"} : Join!JoinLeft(j, o)
        BY <1>6
    <2> DEFINE e == [Join!Off(join[j]) EXCEPT !.coming = FALSE, !.outcome = o, !.at = Join!Done(o)]
    <2>2. /\ e \in Attempted /\ e.found = join[j].found /\ e.coming = FALSE
          /\ e.nearby = join[j].nearby
        BY <1>1, <2>1 DEF Attempted, Join!Off, Join!Done
    <2>3. join' = [join EXCEPT ![j] = e]
        BY <2>1 DEF Join!JoinLeft
    <2>4. QED
        BY <1>3, <2>2, <2>3
<1>7. CASE \/ Join!JoinAgain(j) \/ Join!FinishJoin(j) \/ Join!JoinUp(j) \/ Join!JoinGivesUp(j)
           \/ Join!TalkAnswers(j)
    <2>1. PICK e : /\ join' = [join EXCEPT ![j] = e]
                   /\ \/ e = [join[j] EXCEPT !.at = "done", !.outcome = "expired"]
                      \/ e = [join[j] EXCEPT !.at = "running"]
                      \/ e = [join[j] EXCEPT !.at = "joined"]
                      \/ e = [join[j] EXCEPT !.at = "over"]
                      \/ e = [join[j] EXCEPT !.up = TRUE]
                      \/ e = [join[j] EXCEPT !.over = TRUE]
                      \/ e = [join[j] EXCEPT !.nearby = TRUE] /\ inv.answer # None
        BY <1>1, <1>7 DEF Join!JoinAgain, Join!FinishJoin, Join!JoinUp, Join!JoinGivesUp,
                          Join!TalkAnswers
    <2>2. /\ e \in Attempted /\ e.found = join[j].found /\ e.coming = join[j].coming
          /\ e.nearby => join[j].nearby \/ inv.answer # None
        BY <1>1, <2>1 DEF Attempted
    <2>3. QED
        BY <1>3, <2>1, <2>2
<1>8. CASE Join!AskerEnds(j)
    <2>1. (IF join[j].found = "none" THEN "expired" ELSE join[j].found)
              \in {"none", "granted", "declined", "expired"}
        BY <1>1 DEF Attempted
    <2>2. QED
        BY <1>6, <1>8, <2>1 DEF Join!AskerEnds
<1>9. CASE Join!JoinBreaks(j)
    <2>1. join[j].found \in {"none", "granted", "declined", "expired"}
        BY <1>1 DEF Attempted
    <2>2. QED
        BY <1>6, <1>9, <2>1 DEF Join!JoinBreaks
<1>10. QED
    BY <1>4, <1>5, <1>7, <1>8, <1>9 DEF Join!JoinThread

LEMMA JoinStep ==
    ASSUME Join!EnrollAssumption PROVE JoinInv /\ [Join!Next]_(Join!vars) => JoinInv'
<1> SUFFICES ASSUME JoinInv, [Join!Next]_(Join!vars) PROVE JoinInv'
    OBVIOUS
<1>1. inv \in Invitations /\ join \in [Attempts -> Attempted]
    BY DEF JoinInv, JoinTypes
<1>2. CASE Join!InviteThread \/ Join!InviteBreaks \/ Join!InviteCloses \/ Join!ShowOutcome
    BY <1>2, InviteSteps
<1>3. CASE Join!RelayAnswer
    <2>1. inv' \in Invitations /\ inv'.answer = inv.answer /\ inv'.commands = inv.commands
          /\ inv'.asking = inv.asking /\ inv'.out = FALSE /\ inv.answer # None
        BY <1>1, <1>3 DEF Join!RelayAnswer, Invitations, JoinInv, Sent
    <2>2. ASSUME NEW j \in Attempts
          PROVE  join'[j] \in Attempted /\ Told(join[j], j, inv)'
        <3>1. join[j] \in Attempted /\ Told(join[j], j, inv)
            BY <1>1 DEF JoinInv
        <3>2. join'[j] \in {join[j], [join[j] EXCEPT !.coming = TRUE]}
            BY <1>3 DEF Join!RelayAnswer
        <3>3. /\ join'[j] \in Attempted /\ join'[j].found = join[j].found
            BY <3>1, <3>2 DEF Attempted
        <3>4. QED
            BY <2>1, <3>1, <3>3 DEF Told
    <2>3. join' \in [Attempts -> Attempted]
        BY <1>3, <2>2 DEF Join!RelayAnswer
    <2>4. UNCHANGED <<nearbyOnly, clicks>>
        BY <1>3 DEF Join!RelayAnswer
    <2>5. JoinTypes' /\ FirstCounts(inv)' /\ Sent(inv)' /\ Nearby(inv.asking, clicks)'
        BY <2>1, <2>3, <2>4 DEF JoinInv, JoinTypes, FirstCounts, Sent, Nearby
    <2>6. QED
        BY <2>2, <2>5 DEF JoinInv
<1>4. CASE \E d \in Join!Decision : Join!Click(d)
    BY <1>4, ClickStep
<1>5. ASSUME NEW j \in Attempts,
             \/ Join!JoinThread(j) \/ Join!JoinUp(j) \/ Join!JoinBreaks(j) \/ Join!JoinGivesUp(j)
             \/ Join!TalkAnswers(j)
      PROVE  JoinInv'
    BY <1>5, JoinSteps
<1>6. ASSUME NEW j \in Attempts, Join!Ask(j) PROVE JoinInv'
    <2>1. /\ inv' \in Invitations /\ UNCHANGED <<nearbyOnly, join, clicks>>
          /\ inv'.answer = inv.answer /\ inv'.commands = inv.commands /\ inv'.asking = inv.asking
          /\ inv'.out = inv.out
        BY <1>1, <1>6 DEF Join!Ask, Invitations
    <2>2. QED
        BY <2>1, InviteGoesOn DEF JoinInv, Sent
<1>7. ASSUME NEW j \in Attempts, Join!Reach(j) PROVE JoinInv'
    <2>1. Join!Taken(j) \in Seq(Attempts) /\ j \in Near /\ UNCHANGED <<nearbyOnly, join, clicks>>
        BY <1>7, TakenTyped DEF Join!Reach
    <2>2. /\ inv' \in Invitations /\ inv'.answer = inv.answer /\ inv'.commands = inv.commands
          /\ inv'.asking = Join!Taken(j) /\ inv'.out = inv.out
        BY <1>1, <1>7, <2>1 DEF Join!Reach, Invitations
    <2>3. QED
        BY <2>1, <2>2, Requested
<1>8. ASSUME NEW j \in Attempts, Join!TalkEnds(j) \/ Join!TalkBreaks(j) PROVE JoinInv'
    BY <1>8 DEF Join!TalkEnds, Join!TalkBreaks, JoinInv, JoinTypes, FirstCounts, Sent, Told, Nearby
<1>9. CASE UNCHANGED Join!vars
    BY <1>9 DEF Join!vars, JoinInv, JoinTypes, FirstCounts, Sent, Told, Nearby
<1>10. QED
    BY <1>2, <1>3, <1>4, <1>5, <1>6, <1>7, <1>8, <1>9 DEF Join!Next

(* For any number of attempts, decisions, faults and requests: the account *)
(* key reaches the device the person approved first, or nobody, and with   *)
(* Same Network Only a device on this network (Invitation, JoinAttempt).   *)
THEOREM ApprovedAlone ==
    /\ Join!Spec => []Join!OnlyTheApproved
    /\ MCSpec => []OnlyTheApproved
<1>1. JoinInv => Join!OnlyTheApproved
    <2> SUFFICES ASSUME JoinInv PROVE Join!OnlyTheApproved
        OBVIOUS
    <2>1. ASSUME NEW j \in Attempts, join[j].found # "none"
          PROVE  /\ clicks[1] = [kind |-> IF join[j].found = "granted" THEN "grant"
                                          ELSE "decline", to |-> j]
                 /\ clicks # <<>>
        <3>1. inv.answer # None /\ join[j].found = Join!Judge(inv.answer, j)
            BY <2>1 DEF JoinInv, Told
        <3>2. clicks # <<>> /\ inv.answer = clicks[1] /\ clicks[1] \in Join!Decision
            BY <3>1 DEF JoinInv, JoinTypes, FirstCounts
        <3>3. inv.answer.to = j /\ inv.answer.kind \in {"grant", "decline"}
              /\ join[j].found = (IF inv.answer.kind = "grant" THEN "granted" ELSE "declined")
            BY <2>1, <3>1, <3>2 DEF Join!Judge, Join!Decision
        <3>4. QED
            BY <3>2, <3>3 DEF Join!Decision
    <2>2. ASSUME nearbyOnly PROVE Join!Granted \subseteq Near
        <3>1. clicks \in Seq({d \in Join!Decision : d.to \in Near})
            BY <2>2 DEF JoinInv, Nearby
        <3>2. ASSUME NEW j \in Attempts, join[j].found = "granted" PROVE j \in Near
            <4>1. clicks[1] = [kind |-> "grant", to |-> j] /\ clicks # <<>>
                BY <2>1, <3>2
            <4>2. clicks[1].to \in Near
                BY <3>1, <4>1
            <4>3. QED
                BY <4>1, <4>2
        <3>3. QED
            BY <3>2 DEF Join!Granted
    <2>3. QED
        BY <2>1, <2>2 DEF Join!OnlyTheApproved
<1>2. Join!Init => JoinInv
    BY JoinInit, StartAssumption
<1>3. JoinInv /\ [Join!Next]_(Join!vars) => JoinInv'
    BY JoinStep, StartAssumption
<1>4. Join!Spec => []Join!OnlyTheApproved
    BY <1>1, <1>2, <1>3, PTL DEF Join!Spec
<1>5. MCSpec => []OnlyTheApproved
    <2>1. MCInit => (part = "enroll" => JoinInv)
        BY <1>2, PartStarts
    <2>2. (part = "enroll" => JoinInv) /\ [MCNext]_<<part, vars, slots>> => (part = "enroll" => JoinInv)'
        BY <1>3, PartGoesOn
    <2>3. (part = "enroll" => JoinInv) => OnlyTheApproved
        BY <1>1 DEF OnlyTheApproved
    <2> QED
        BY <2>1, <2>2, <2>3, PTL DEF MCSpec
<1> QED
    BY <1>4, <1>5

(***************************************************************************)
(* The launches and the commands.  The lock has one owner, so what was     *)
(* read from a file is in the hands of the one Asli that runs; and while   *)
(* commands come one after the other, the file a command is about to write *)
(* is still as it saw it.                                                  *)
(***************************************************************************)
Idle == {"new", "left", "refused"}

LockOwned ==
    /\ \A p \in Launches : launch[p] \in {"starting", "running", "leaving", "exiting"} => lock = p
    /\ \A c \in Asli!Askers : command[c] = "unlocking" => lock = c

ReadByOwner ==
    \A f \in Asli!Files : read[f] # None => \E p \in Launches : Asli!Running(p)

OneCommand ==
    \A c, d \in Asli!Askers : command[c] \notin Idle /\ command[d] \notin Idle => c = d

SlotFree ==
    \A c \in Transfers : command[c] = "writing" => file["transfer"] = None

Leaves == \E p \in Launches : launch[p] = "leaving"

ReadIsThere == read["transfer"] # None => Leaves \/ file["transfer"] = read["transfer"]

AsliInv ==
    /\ launch \in [Launches -> {"new", "claiming", "turned away", "starting", "running",
                                "leaving", "exiting", "gone"}]
    /\ command \in [Asli!Askers -> Idle \cup {"asking", "unlocking", "waiting", "writing"}]
    /\ file \in [Asli!Files -> Asli!Askers \cup {None}]
    /\ read \in [Asli!Files -> Asli!Askers \cup {None}]
    /\ LockOwned /\ ReadByOwner /\ OneCommand /\ SlotFree /\ ReadIsThere

LEMMA AsliInit == ASSUME Asli!InstanceAssumption PROVE Asli!Init => AsliInv
BY DEF Asli!Init, AsliInv, LockOwned, ReadByOwner, OneCommand, SlotFree, ReadIsThere, Idle,
       Asli!Files, Asli!Askers

(* A launch that moves on. *)
LEMMA LaunchSteps ==
    ASSUME Asli!InstanceAssumption, AsliInv, NEW p \in Launches,
           Asli!Launch(p) \/ Asli!Starting(p) \/ Asli!Quit(p) \/ Asli!ForgetFiles(p) \/ Asli!Restart(p)
    PROVE  AsliInv' /\ Asli!TransferKept
<1> USE DEF Asli!InstanceAssumption, AsliInv, LockOwned, ReadByOwner, Asli!Goes, Asli!Running, Leaves
<1>1. CASE Asli!Launch(p)
    BY <1>1 DEF Asli!Launch, Asli!commands, OneCommand, SlotFree, ReadIsThere, Asli!TransferKept,
                Asli!TakenOnlyRead
<1>2. CASE Asli!Claim(p)
    BY <1>2 DEF Asli!Claim, Asli!commands, OneCommand, SlotFree, ReadIsThere, Asli!TransferKept,
                Asli!TakenOnlyRead
<1>3. CASE Asli!AlreadyRunning(p)
    BY <1>3 DEF Asli!AlreadyRunning, Asli!commands, OneCommand, SlotFree, ReadIsThere,
                Asli!TransferKept, Asli!TakenOnlyRead
<1>4. CASE Asli!StartWatch(p)
    <2>1. launch[p] = "starting" /\ lock = p
        BY <1>4 DEF Asli!StartWatch
    <2>2. \A f \in Asli!Files : read[f] = None
        BY <2>1
    <2>3. launch' = [launch EXCEPT ![p] = "running"] /\ file' = [f \in Asli!Files |-> None]
          /\ UNCHANGED <<lock, command, read>>
        BY <1>4 DEF Asli!StartWatch
    <2>4. AsliInv'
        BY <2>1, <2>2, <2>3 DEF OneCommand, SlotFree, ReadIsThere, Asli!Files
    <2>5. Asli!TransferKept
        BY <2>1, <2>3 DEF Asli!TransferKept, Asli!TakenOnlyRead
    <2>6. QED
        BY <2>4, <2>5
<1>5. CASE Asli!Quit(p)
    BY <1>5 DEF Asli!Quit, OneCommand, SlotFree, ReadIsThere, Asli!TransferKept,
                Asli!TakenOnlyRead, Asli!Files
<1>6. CASE Asli!Restart(p)
    <2>1. launch[p] \in {"running", "leaving"} /\ lock = p /\ UNCHANGED <<command, file>>
          /\ read' = [f \in Asli!Files |-> None]
        BY <1>6 DEF Asli!Restart, Asli!Running
    <2>2. OneCommand' /\ SlotFree' /\ ReadIsThere' /\ Asli!TransferKept
        BY <2>1 DEF OneCommand, SlotFree, ReadIsThere, Asli!TransferKept, Asli!TakenOnlyRead,
                    Asli!Files
    <2>3. CASE launch' = [launch EXCEPT ![p] = "claiming"] /\ lock' = None
        BY <2>1, <2>2, <2>3
    <2>4. CASE /\ UNCHANGED lock
               /\ \E q \in Launches :
                   launch[q] = "new" /\ launch' = [launch EXCEPT ![p] = "exiting", ![q] = "claiming"]
        BY <2>1, <2>2, <2>4
    <2>5. QED
        BY <1>6, <2>3, <2>4 DEF Asli!Restart
<1>7. CASE Asli!ForgetFiles(p)
    <2>1. launch[p] = "running" /\ lock = p /\ UNCHANGED <<lock, command, read>>
          /\ launch' = [launch EXCEPT ![p] = "leaving"] /\ file' = [f \in Asli!Files |-> None]
        BY <1>7 DEF Asli!ForgetFiles
    <2>2. launch'[p] = "leaving"
        BY <2>1
    <2>3. OneCommand' /\ SlotFree' /\ ReadIsThere' /\ Asli!TransferKept
        BY <2>1, <2>2 DEF OneCommand, SlotFree, ReadIsThere, Asli!TransferKept, Asli!TakenOnlyRead,
                          Asli!Files
    <2>4. LockOwned' /\ ReadByOwner'
        BY <2>1, <2>2
    <2>5. /\ launch' \in [Launches -> {"new", "claiming", "turned away", "starting", "running",
                                      "leaving", "exiting", "gone"}]
          /\ file' \in [Asli!Files -> Asli!Askers \cup {None}]
        BY <2>1
    <2>6. QED
        BY <2>1, <2>3, <2>4, <2>5
<1>8. QED
    BY <1>1, <1>2, <1>3, <1>4, <1>5, <1>6, <1>7 DEF Asli!Starting

LEMMA WatchSteps ==
    ASSUME AsliInv, NEW p \in Launches, NEW f \in Asli!Files,
           Asli!ReadRequest(p, f) \/ Asli!ActOn(p, f)
    PROVE  AsliInv' /\ Asli!TransferKept
<1> USE DEF AsliInv, LockOwned, ReadByOwner, OneCommand, SlotFree, ReadIsThere, Asli!Running,
            Asli!TransferKept, Asli!TakenOnlyRead, Asli!Files, Leaves
<1>1. CASE Asli!ReadRequest(p, f)
    BY <1>1 DEF Asli!ReadRequest
<1>2. CASE Asli!ActOn(p, f)
    <2>1. /\ read[f] # None /\ UNCHANGED <<lock, launch, command>>
          /\ file' = [file EXCEPT ![f] = None] /\ read' = [read EXCEPT ![f] = None]
        BY <1>2 DEF Asli!ActOn
    <2>2. /\ file' \in [Asli!Files -> Asli!Askers \cup {None}]
          /\ read' \in [Asli!Files -> Asli!Askers \cup {None}]
        BY <2>1
    <2>3. LockOwned' /\ ReadByOwner' /\ OneCommand' /\ SlotFree' /\ ReadIsThere'
        BY <2>1
    <2>4. Asli!TransferKept
        BY <2>1
    <2>5. QED
        BY <2>1, <2>2, <2>3, <2>4
<1>3. QED
    BY <1>1, <1>2

LEMMA CommandSteps ==
    ASSUME Asli!InstanceAssumption, ~Together, AsliInv, NEW c \in Asli!Askers,
           Asli!Begin(c) \/ Asli!Command(c)
    PROVE  AsliInv' /\ Asli!TransferKept
<1> USE DEF Asli!InstanceAssumption, AsliInv, LockOwned, ReadByOwner, OneCommand, SlotFree, Idle,
            Asli!Step, Asli!Running, Leaves
<1> Transfers \subseteq Asli!Askers
    BY DEF Asli!Askers
<1>1. CASE Asli!Begin(c)
    BY <1>1 DEF Asli!Begin, ReadIsThere, Asli!TransferKept, Asli!TakenOnlyRead
<1>2. CASE Asli!IsRunning(c)
    <2>1. /\ command[c] = "asking" /\ UNCHANGED <<launch, file, read>>
          /\ \/ lock = None /\ lock' = c /\ command' = [command EXCEPT ![c] = "unlocking"]
             \/ lock' = lock /\ command' = [command EXCEPT ![c] = "waiting"]
        BY <1>2 DEF Asli!IsRunning
    <2>2. LockOwned'
        <3>1. CASE lock = None /\ lock' = c /\ command' = [command EXCEPT ![c] = "unlocking"]
            <4>1. /\ \A p \in Launches : launch[p] \notin {"starting", "running", "leaving", "exiting"}
                  /\ \A d \in Asli!Askers : command[d] # "unlocking"
                BY <3>1
            <4>2. QED
                BY <2>1, <3>1, <4>1
        <3>2. CASE lock' = lock /\ command' = [command EXCEPT ![c] = "waiting"]
            BY <2>1, <3>2
        <3>3. QED
            BY <2>1, <3>1, <3>2
    <2>3. OneCommand' /\ SlotFree' /\ ReadByOwner' /\ ReadIsThere' /\ Asli!TransferKept
        BY <2>1 DEF ReadIsThere, Asli!TransferKept, Asli!TakenOnlyRead
    <2>4. QED
        BY <2>1, <2>2, <2>3
<1>3. CASE Asli!Unlock(c)
    BY <1>3 DEF Asli!Unlock, ReadIsThere, Asli!TransferKept, Asli!TakenOnlyRead
<1>4. CASE Asli!SeesSlot(c)
    BY <1>4 DEF Asli!SeesSlot, Asli!Slot, Asli!FileOf, ReadIsThere, Asli!TransferKept,
                Asli!TakenOnlyRead
<1>5. CASE Asli!GivesUp(c)
    BY <1>5 DEF Asli!GivesUp, ReadIsThere, Asli!TransferKept, Asli!TakenOnlyRead
<1>6. CASE Asli!LeaveRequest(c)
    BY <1>6 DEF Asli!LeaveRequest, Asli!FileOf, Asli!Files, Asli!Askers, ReadIsThere,
                Asli!TransferKept, Asli!TakenOnlyRead
<1>7. QED
    BY <1>1, <1>2, <1>3, <1>4, <1>5, <1>6 DEF Asli!Command

LEMMA AsliStep ==
    ASSUME Asli!InstanceAssumption, ~Together
    PROVE  AsliInv /\ [Asli!Next]_(Asli!vars) => AsliInv' /\ [Asli!TransferKept]_(Asli!vars)
<1>1. ASSUME AsliInv, UNCHANGED Asli!vars PROVE AsliInv'
    BY <1>1 DEF Asli!vars, AsliInv, LockOwned, ReadByOwner, OneCommand, SlotFree, ReadIsThere,
                Asli!Running, Leaves
<1>2. QED
    BY <1>1, LaunchSteps, WatchSteps, CommandSteps DEF Asli!Next

(* While commands come one after the other, and for any number of          *)
(* launches, restarts and commands: a transfer request left for the        *)
(* running Asli leaves its file only read, at the next start, or as the    *)
(* account is left (request_transfer in cli.rs, act_on_transfer_request    *)
(* and forget_account_files in daemon.rs).                                 *)
THEOREM TransfersRead ==
    ASSUME ~Together
    PROVE  /\ Asli!Spec => Asli!NoTransferLost
           /\ MCSpec => NoTransferLost
<1>1. Asli!Init => AsliInv
    BY AsliInit, StartAssumption
<1>2. AsliInv /\ [Asli!Next]_(Asli!vars) => AsliInv' /\ [Asli!TransferKept]_(Asli!vars)
    BY AsliStep, StartAssumption
<1>3. Asli!Spec => Asli!NoTransferLost
    BY <1>1, <1>2, PTL DEF Asli!Spec, Asli!NoTransferLost
<1>4. MCSpec => NoTransferLost
    <2>1. MCInit => (part = "instance" => AsliInv)
        BY <1>1, PartStarts
    <2>2. (part = "instance" => AsliInv) /\ [MCNext]_<<part, vars, slots>>
          => (part = "instance" => AsliInv)'
        BY <1>2, PartGoesOn
    <2>3. (part = "instance" => AsliInv) /\ [MCNext]_<<part, vars, slots>>
          => [part = "instance" => Asli!TransferKept]_slots
        BY <1>2, PartGoesOn DEF slots, Asli!vars
    <2> QED
        BY <2>1, <2>2, <2>3, PTL DEF MCSpec, NoTransferLost
<1> QED
    BY <1>3, <1>4
=============================================================================
