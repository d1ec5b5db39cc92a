---------------------------- MODULE UpgradesProofs ---------------------------
(***************************************************************************)
(* UpgradedWhole: every version is installed once and in order, with a     *)
(* backup of the contents it left, in the authority's store, the journal   *)
(* and the local store, by any number of processes that stop and start     *)
(* again at any point.                                                     *)
(***************************************************************************)
EXTENDS Upgrades, SequenceTheorems, TLAPS

-----------------------------------------------------------------------------
(* Upgrades.  The inductive invariant: at most one process works on an      *)
(* authority store, and while it is about to leave a version, the backup of *)
(* that version has its contents; a process of the local store never means to *)
(* install a version beyond the next one.                                   *)
AtAuthority == [at : {"vacuum", "install"}, from : Nat, goal : Int]
AtJournal == {[at |-> "schema"]}
AtLocal == [at : {"checkpoint", "apply"}, next : Int] \cup [at : {"copy"}, next : Int, had : Int \X Int]
Copies == [from : Int, data : Int]

UpgradeTypes ==
  /\ kind \in {"authority", "journal", "local"} /\ ver \in Int /\ data \in Int
  /\ left \subseteq Copies /\ backups \subseteq Copies /\ applied \in Seq(Int)
  /\ opener \in [Openers -> {Resting} \cup AtAuthority \cup AtJournal \cup AtLocal]
  /\ \A p \in Openers : opener[p] = Resting
                        \/ (kind = "authority" /\ opener[p] \in AtAuthority)
                        \/ (kind = "journal" /\ opener[p] \in AtJournal)
                        \/ (kind = "local" /\ opener[p] \in AtLocal)

AppliedInv ==
  /\ \A i \in 2 .. Len(applied) : applied[i] = applied[i - 1] + 1
  /\ applied # <<>> => applied[Len(applied)] = ver /\ ver >= 1
  /\ kind = "journal" /\ ver # 1 => rows # "journaled"
  /\ kind = "authority" /\ ver > 12 => rows # "unfolded"

LeftInv ==
  /\ kind # "authority" => left = {}
  /\ \A l \in left : l.from < ver /\ (l.from > 1 => l \in backups)

Covered(s) ==
  /\ s.from <= ver
  /\ s.at = "vacuum" => s.from = ver
  /\ s.at = "install" /\ s.from = ver /\ ver > 1 => Copy(ver, data) \in backups

LockInv ==
  kind = "authority" =>
    \A p \in Openers : opener[p] # Resting =>
      Covered(opener[p]) /\ \A q \in Openers : opener[q] # Resting => p = q

NextInv ==
  kind = "local" => ver >= 0 /\ \A p \in Openers : opener[p] # Resting => opener[p].next \in 1 .. ver + 1

UpgradeInv == UpgradeTypes /\ AppliedInv /\ LeftInv /\ LockInv /\ NextInv

(* An UpgradeVn of the store's version: it makes an empty backup, or goes on *)
(* with the one that is there.                                              *)
Starts(p, goal) ==
  /\ kind = "authority" /\ ver >= 1 /\ ~Locked
  /\ \/ /\ backups' = backups \cup {Copy(ver, Torn)}
        /\ Goto(p, [at |-> "vacuum", from |-> ver, goal |-> goal])
     \/ /\ BackupsOf(ver) # {} /\ Reusable(ver)
        /\ Goto(p, [at |-> "install", from |-> ver, goal |-> goal])
        /\ UNCHANGED backups
  /\ UNCHANGED <<kind, ver, data, rows, dir, applied, left, faults>>

(* Every upgrade and every installation is one of the two generic ones.     *)
LEMMA UpgradeForms ==
  ASSUME NEW p
  PROVE  /\ UpgradeAny(p) => \E goal \in Int : Starts(p, goal)
         /\ InstallAny(p) => \E v \in 1 .. 20 : InstallVersion(p, v) /\ (v = 13 => rows # "unfolded")
<1>1. ASSUME UpgradeAny(p) PROVE \E goal \in Int : Starts(p, goal)
  <2>1. /\ (UpgradeV1(p) => Starts(p, 2)) /\ (UpgradeV2(p) => Starts(p, 3)) /\ (UpgradeV3(p) => Starts(p, 4))
        /\ (UpgradeV4(p) => Starts(p, 5)) /\ (UpgradeV5(p) => Starts(p, 6)) /\ (UpgradeV6(p) => Starts(p, 7))
        /\ (UpgradeV7(p) => Starts(p, 8)) /\ (UpgradeV8(p) => Starts(p, 9)) /\ (UpgradeV9(p) => Starts(p, 10))
        /\ (UpgradeV10(p) => Starts(p, 11)) /\ (UpgradeV11(p) => Starts(p, 20)) /\ (UpgradeV12(p) => Starts(p, 20))
        /\ (upgradeV13(p) => Starts(p, 20)) /\ (UpgradeV14(p) => Starts(p, 20)) /\ (UpgradeV15(p) => Starts(p, 20))
        /\ (UpgradeV16(p) => Starts(p, 20)) /\ (UpgradeV17(p) => Starts(p, 18)) /\ (UpgradeV18(p) => Starts(p, 19))
        /\ (UpgradeV19(p) => Starts(p, 20))
    BY DEF UpgradeV1, UpgradeV2, UpgradeV3, UpgradeV4, UpgradeV5, UpgradeV6, UpgradeV7,
       UpgradeV8, UpgradeV9, UpgradeV10, UpgradeV11, UpgradeV12, upgradeV13, UpgradeV14, UpgradeV15, UpgradeV16,
       UpgradeV17, UpgradeV18, UpgradeV19, Upgrade, checkSchemaVersion, Starts
  <2> QED BY <1>1, <2>1 DEF UpgradeAny
<1>2. ASSUME InstallAny(p) PROVE \E v \in 1 .. 20 : InstallVersion(p, v) /\ (v = 13 => rows # "unfolded")
  BY <1>2 DEF InstallAny, installBaseline, installStep3, installStep4, installStep6, installStep5, installM5Genesis,
     installStep8, installStep9, installStep10, installStep11, installStep12, installStep13, installStep14,
     installStep15, installStep16, installStep17, installBatchSweep, installDependencies, installNamedBatches,
     installNamedBatchMembership
<1> QED BY <1>1, <1>2

(* A step of the journal's schema goes to the next version, or from an empty *)
(* file to the version of a new one, and leaves no command journaled by the *)
(* first release as it was (upgradeSchemaV1).                               *)
LEMMA SchemaForms ==
  ASSUME NEW p, UpgradeSchema(p)
  PROVE  \E v, to \in Nat : /\ SchemaFrom(p, v, to)
                            /\ to = v + 1 \/ (v = 0 /\ to = 9)
                            /\ rows' = rows \/ rows' = "pre-admission"
                            /\ v = 1 => rows' # "journaled"
<1> DEFINE Form(v, to) == /\ SchemaFrom(p, v, to)
                          /\ to = v + 1 \/ (v = 0 /\ to = 9)
                          /\ rows' = rows \/ rows' = "pre-admission"
                          /\ v = 1 => rows' # "journaled"
<1>1. CASE installSchema(p)
  <2>1. Form(0, 9) BY <1>1 DEF installSchema
  <2> QED BY <2>1
<1>2. CASE upgradeSchemaV1(p)
  <2>1. Form(1, 2) BY <1>2 DEF upgradeSchemaV1
  <2> QED BY <2>1
<1>3. ASSUME NEW v \in Nat, v # 1, SchemaFrom(p, v, v + 1), rows' = rows PROVE \E w, to \in Nat : Form(w, to)
  <2>1. Form(v, v + 1) /\ v + 1 \in Nat BY <1>3
  <2> HIDE DEF Form
  <2> QED BY <2>1
<1> HIDE DEF Form
<1>4. CASE upgradeSchemaV2(p) \/ upgradeSchemaV3(p) \/ upgradeSchemaV4(p) \/ upgradeSchemaV5(p) \/ upgradeSchemaV6(p)
           \/ upgradeSchemaV7(p) \/ upgradeSchemaV8(p) \/ upgradeSchemaV9(p) \/ upgradeSchemaV10(p)
  <2>1. PICK v \in 2 .. 10 : SchemaFrom(p, v, v + 1) /\ rows' = rows
    BY <1>4 DEF upgradeSchemaV2, upgradeSchemaV3, upgradeSchemaV4, upgradeSchemaV5, upgradeSchemaV6,
       upgradeSchemaV7, upgradeSchemaV8, upgradeSchemaV9, upgradeSchemaV10
  <2> QED BY <1>3, <2>1
<1>5. \E v, to \in Nat : Form(v, to)
  <2>1. CASE installSchema(p) BY <1>1, <2>1 DEF Form
  <2> QED BY <1>1, <1>2, <1>4 DEF UpgradeSchema, Form
<1> QED BY <1>5 DEF Form

(* A process moves on and nothing else of what the invariant is about changes. *)
LEMMA Moved ==
  ASSUME UpgradeTypes, NEW p \in Openers, NEW s, Goto(p, s)
  PROVE  opener'[p] = s /\ \A q \in Openers : q # p => opener'[q] = opener[q]
BY DEF UpgradeTypes, Goto

(* One more version at the end of those installed.                          *)
LEMMA Installs ==
  ASSUME UpgradeTypes, AppliedInv, NEW v \in Int, v >= 1, Install(v), v = ver + 1 \/ ver < 1,
         kind' = kind, kind = "journal" /\ v # 1 => rows' # "journaled",
         kind = "authority" /\ v > 12 => rows' # "unfolded"
  PROVE  applied' \in Seq(Int) /\ AppliedInv' /\ ver' = v
<1>1. applied \in Seq(Int) /\ ver \in Int BY DEF UpgradeTypes
<1>2. PICK n : n = Len(applied) OBVIOUS
<1>3. n \in Nat /\ DOMAIN applied = 1 .. n /\ (applied # <<>> <=> n > 0) BY <1>1, <1>2
<1>4. ver' = v /\ applied' = Append(applied, v) BY DEF Install
<1>5. /\ applied' \in Seq(Int) /\ Len(applied') = n + 1 /\ applied'[n + 1] = v
      /\ \A i \in 1 .. n : applied'[i] = applied[i]
  BY <1>1, <1>2, <1>4, AppendProperties
<1>6. ASSUME NEW i \in 2 .. n + 1 PROVE applied'[i] = applied'[i - 1] + 1
  <2>1. CASE i <= n
    <3>1. i \in 1 .. n /\ i - 1 \in 1 .. n /\ i \in 2 .. n BY <1>3, <1>6, <2>1
    <3> QED BY <1>2, <1>5, <3>1 DEF AppliedInv
  <2>2. CASE i = n + 1
    <3>1. n \in 1 .. n /\ i - 1 = n BY <1>3, <1>6, <2>2
    <3>2. applied[n] = ver /\ ver >= 1 BY <1>2, <1>3, <3>1 DEF AppliedInv
    <3>3. v = ver + 1 BY <1>1, <3>2
    <3> QED BY <1>5, <2>2, <3>1, <3>2, <3>3
  <2> QED BY <1>3, <1>6, <2>1, <2>2
<1> QED BY <1>4, <1>5, <1>6 DEF AppliedInv

(* What the types say of a process that is at work.                         *)
LEMMA OpenerKinds ==
  ASSUME UpgradeTypes, NEW p \in Openers
  PROVE  /\ opener[p] # Resting => \/ kind = "authority" /\ opener[p] \in AtAuthority
                                   \/ kind = "journal" /\ opener[p] \in AtJournal
                                   \/ kind = "local" /\ opener[p] \in AtLocal
         /\ opener[p].at \in {"vacuum", "install"} => kind = "authority" /\ opener[p] \in AtAuthority
         /\ opener[p].at = "schema" => kind = "journal" /\ opener[p] \in AtJournal
         /\ opener[p].at \in {"checkpoint", "apply", "copy"} => kind = "local" /\ opener[p] \in AtLocal
         /\ Resting.at = "rest"
BY DEF UpgradeTypes, AtAuthority, AtJournal, AtLocal, Resting

(* Steps on the authority's store: a creation, the start of an upgrade with *)
(* its backup, the copy, one version, the end.                              *)
LEMMA AuthorityStarts ==
  ASSUME UpgradeInv, NEW p \in Openers, CreateEmpty(p) \/ \E goal \in Int : Starts(p, goal)
  PROVE  UpgradeInv'
<1> USE DEF UpgradeInv
<1>1. CASE CreateEmpty(p)
  <2>1. PICK s : s = [at |-> "install", from |-> 0, goal |-> 20] OBVIOUS
  <2>2. /\ kind = "authority" /\ ver = -1 /\ ver' = 0 /\ Goto(p, s)
        /\ UNCHANGED <<kind, data, rows, dir, backups, applied, left, faults>>
    BY <1>1, <2>1 DEF CreateEmpty, Absent
  <2>3. s \in AtAuthority /\ s.from = 0 /\ s.at = "install" /\ s # Resting BY <2>1 DEF AtAuthority, Resting
  <2>4. opener'[p] = s /\ \A q \in Openers : q # p => opener'[q] = opener[q] BY <2>2, Moved
  <2>5. \A q \in Openers : opener[q] = Resting
    <3> SUFFICES ASSUME NEW q \in Openers, opener[q] # Resting PROVE FALSE OBVIOUS
    <3>1. Covered(opener[q]) BY <2>2 DEF LockInv
    <3>2. opener[q].from \in Nat BY <2>2, OpenerKinds DEF AtAuthority
    <3> QED BY <2>2, <3>1, <3>2 DEF Covered
  <2>6. UpgradeTypes' BY <2>2, <2>3, <2>4 DEF UpgradeTypes, Goto
  <2>7. AppliedInv' BY <2>2 DEF AppliedInv
  <2>8. LeftInv'
    <3>1. \A l \in left : l.from \in Int BY DEF UpgradeTypes, Copies
    <3> QED BY <2>2, <3>1 DEF LeftInv
  <2>9. LockInv' BY <2>2, <2>3, <2>4, <2>5 DEF LockInv, Covered
  <2>10. NextInv' BY <2>2 DEF NextInv
  <2> QED BY <2>6, <2>7, <2>8, <2>9, <2>10
<1>2. ASSUME NEW goal \in Int, Starts(p, goal) PROVE UpgradeInv'
  <2>1. /\ kind = "authority" /\ ver >= 1 /\ ver \in Int /\ \A q \in Openers : opener[q] = Resting
        /\ UNCHANGED <<kind, ver, data, rows, applied, left>>
    BY <1>2 DEF Starts, Locked, UpgradeTypes
  <2>2. AppliedInv' /\ NextInv' BY <2>1 DEF AppliedInv, NextInv
  <2>3. ASSUME NEW at \in {"vacuum", "install"}, Goto(p, [at |-> at, from |-> ver, goal |-> goal]),
               backups' \subseteq Copies, backups \subseteq backups',
               at = "install" /\ ver > 1 => Copy(ver, data) \in backups'
        PROVE  UpgradeInv'
    <3>1. PICK s : s = [at |-> at, from |-> ver, goal |-> goal] OBVIOUS
    <3>2. s \in AtAuthority /\ s.from = ver /\ s.at = at /\ s # Resting BY <2>1, <3>1 DEF AtAuthority, Resting
    <3>3. opener'[p] = s /\ \A q \in Openers : q # p => opener'[q] = opener[q] BY <2>3, <3>1, Moved
    <3>4. UpgradeTypes' BY <2>1, <2>3, <3>1, <3>2, <3>3 DEF UpgradeTypes, Goto
    <3>5. LeftInv' BY <2>1, <2>3 DEF LeftInv
    <3>6. Covered(s)' BY <2>1, <2>3, <3>2 DEF Covered
    <3>7. LockInv' BY <2>1, <3>2, <3>3, <3>6 DEF LockInv, Covered
    <3> QED BY <2>2, <3>4, <3>5, <3>7
  <2>4. CASE backups' = backups \cup {Copy(ver, Torn)} /\ Goto(p, [at |-> "vacuum", from |-> ver, goal |-> goal])
    <3>1. Copy(ver, Torn) \in Copies BY <2>1 DEF Copy, Copies, Torn
    <3> QED BY <2>3, <2>4, <3>1 DEF UpgradeTypes
  <2>5. CASE /\ BackupsOf(ver) # {} /\ Reusable(ver) /\ UNCHANGED backups
             /\ Goto(p, [at |-> "install", from |-> ver, goal |-> goal])
    <3>1. ASSUME ver > 1 PROVE Copy(ver, data) \in backups
      <4>1. \A b \in BackupsOf(ver) : b.data = data BY <2>1, <2>5, <3>1 DEF Reusable
      <4>2. PICK b \in backups : b.from = ver /\ b.data = data BY <2>5, <4>1 DEF BackupsOf
      <4>3. b \in Copies BY DEF UpgradeTypes
      <4>4. b = [from |-> b.from, data |-> b.data] BY <4>3 DEF Copies
      <4> QED BY <4>2, <4>4 DEF Copy
    <3> QED BY <2>3, <2>5, <3>1 DEF UpgradeTypes
  <2> QED BY <1>2, <2>4, <2>5 DEF Starts
<1> QED BY <1>1, <1>2

(* An authority opener that goes on to the next migration keeps the         *)
(* invariant.                                                               *)
LEMMA AuthorityGoesOn ==
  ASSUME UpgradeInv, NEW p \in Openers,
         Vacuum(p) \/ \E v \in 1 .. 20 : InstallVersion(p, v) /\ (v = 13 => rows # "unfolded")
  PROVE  UpgradeInv'
<1> USE DEF UpgradeInv
<1>1. PICK o : o = opener[p] OBVIOUS
<1>2. o.at \in {"vacuum", "install"} BY <1>1 DEF Vacuum, InstallVersion
<1>3. kind = "authority" /\ o \in AtAuthority /\ o # Resting /\ o.from \in Nat
  BY <1>1, <1>2, OpenerKinds DEF AtAuthority
<1>4. Covered(o) /\ \A q \in Openers : q # p => opener[q] = Resting BY <1>1, <1>3 DEF LockInv
<1>5. \A l \in left : l.from \in Int /\ l.from < ver BY DEF UpgradeTypes, Copies, LeftInv
<1>6. CASE Vacuum(p)
  <2>1. PICK s : s = [o EXCEPT !.at = "install"] OBVIOUS
  <2>2. s \in AtAuthority /\ s.from = o.from /\ s.at = "install" /\ s # Resting BY <1>3, <2>1 DEF AtAuthority, Resting
  <2>3. /\ backups' = (backups \ BackupsOf(ver)) \cup {Copy(ver, data)} /\ Goto(p, s)
        /\ UNCHANGED <<kind, ver, data, rows, applied, left>> /\ o.at = "vacuum"
    BY <1>1, <1>6, <2>1 DEF Vacuum
  <2>4. opener'[p] = s /\ \A q \in Openers : q # p => opener'[q] = Resting BY <1>4, <2>3, Moved
  <2>5. Copy(ver, data) \in Copies BY DEF UpgradeTypes, Copy, Copies
  <2>6. UpgradeTypes' BY <1>3, <2>2, <2>3, <2>4, <2>5 DEF UpgradeTypes, Goto
  <2>7. AppliedInv' /\ NextInv' BY <1>3, <2>3 DEF AppliedInv, NextInv
  <2>8. LeftInv' BY <1>3, <1>5, <2>3 DEF LeftInv, BackupsOf
  <2>9. Covered(s)' BY <1>4, <2>2, <2>3 DEF Covered
  <2>10. LockInv' BY <2>2, <2>4, <2>9 DEF LockInv, Covered
  <2> QED BY <2>6, <2>7, <2>8, <2>10
<1>7. ASSUME NEW v \in 1 .. 20, InstallVersion(p, v), v = 13 => rows # "unfolded" PROVE UpgradeInv'
  <2>1. /\ o.at = "install" /\ ver = v - 1 /\ Install(v) /\ UNCHANGED <<kind, data, rows, dir, backups, opener, faults>>
        /\ left' = IF ver = o.from /\ ver > 0 THEN left \cup {Copy(ver, data)} ELSE left
    BY <1>1, <1>7 DEF InstallVersion
  <2>2. ver \in Int /\ data \in Int BY DEF UpgradeTypes
  <2>3. v \in Int /\ v >= 1 /\ v = ver + 1 BY <2>1, <2>2
  <2>4. (kind = "journal" /\ v # 1 => rows' # "journaled") /\ (v > 12 => rows' # "unfolded")
    <3>1. ver > 12 => rows # "unfolded" BY <1>3 DEF AppliedInv
    <3> QED BY <1>3, <1>7, <2>1, <2>3, <3>1
  <2>5. applied' \in Seq(Int) /\ AppliedInv' /\ ver' = v BY <2>1, <2>3, <2>4, Installs
  <2>6. Copy(ver, data) \in Copies /\ Copy(ver, data).from = ver BY <2>2 DEF Copy, Copies
  <2>7. UpgradeTypes' BY <2>1, <2>3, <2>5, <2>6 DEF UpgradeTypes
  <2>8. LeftInv'
    <3> SUFFICES ASSUME NEW l \in left' PROVE l.from < ver' /\ (l.from > 1 => l \in backups)
      BY <1>3, <2>1 DEF LeftInv
    <3>1. CASE l \in left BY <1>5, <2>2, <2>3, <2>5, <3>1 DEF LeftInv
    <3>2. CASE l \notin left
      <4>1. l = Copy(ver, data) /\ ver = o.from BY <2>1, <3>2
      <4> QED BY <1>4, <2>1, <2>2, <2>3, <2>5, <2>6, <4>1 DEF Covered
    <3> QED BY <3>1, <3>2
  <2>9. Covered(o)' BY <1>3, <1>4, <2>1, <2>2, <2>3, <2>5 DEF Covered
  <2>10. LockInv' BY <1>1, <1>4, <2>1, <2>9 DEF LockInv, Covered
  <2>11. NextInv' BY <1>3, <2>1 DEF NextInv
  <2> QED BY <2>5, <2>7, <2>8, <2>10, <2>11
<1> QED BY <1>6, <1>7

(* Steps on the journal: an open makes the file or finds its version, then  *)
(* installs one schema after the other.                                     *)
LEMMA JournalSteps ==
  ASSUME UpgradeInv, NEW p \in Openers, OpenJournal(p) \/ UpgradeSchema(p)
  PROVE  UpgradeInv'
<1> USE DEF UpgradeInv
<1>1. CASE OpenJournal(p)
  <2>1. /\ kind = "journal" /\ Goto(p, [at |-> "schema"]) /\ ver \in Int
        /\ UNCHANGED <<kind, data, rows, backups, applied, left>>
        /\ ver' = ver \/ (ver = -1 /\ ver' = 0)
    BY <1>1 DEF OpenJournal, Absent, UpgradeTypes
  <2>2. opener'[p] = [at |-> "schema"] /\ \A q \in Openers : q # p => opener'[q] = opener[q] BY <2>1, Moved
  <2>3. UpgradeTypes' BY <2>1, <2>2 DEF UpgradeTypes, AtJournal, Goto
  <2>4. AppliedInv' BY <2>1 DEF AppliedInv
  <2>5. LeftInv' /\ LockInv' /\ NextInv' BY <2>1 DEF LeftInv, LockInv, NextInv
  <2> QED BY <2>3, <2>4, <2>5
<1>2. CASE UpgradeSchema(p)
  <2>1. PICK v, to \in Nat : /\ SchemaFrom(p, v, to)
                             /\ to = v + 1 \/ (v = 0 /\ to = 9)
                             /\ rows' = rows \/ rows' = "pre-admission"
                             /\ v = 1 => rows' # "journaled"
    BY <1>2, SchemaForms
  <2>2. kind = "journal" /\ ver = v /\ Install(to) /\ UNCHANGED <<kind, data, backups, opener, left>>
    BY <2>1 DEF SchemaFrom
  <2>3. to \in Int /\ to >= 1 /\ (to = ver + 1 \/ ver < 1) BY <2>1, <2>2
  <2>4. kind # "authority" /\ rows' # "journaled" BY <2>1, <2>2 DEF AppliedInv
  <2>5. applied' \in Seq(Int) /\ AppliedInv' /\ ver' = to BY <2>2, <2>3, <2>4, Installs
  <2>6. UpgradeTypes' BY <2>2, <2>3, <2>5 DEF UpgradeTypes
  <2>7. LeftInv' /\ LockInv' /\ NextInv' BY <2>2 DEF LeftInv, LockInv, NextInv
  <2> QED BY <2>5, <2>6, <2>7
<1> QED BY <1>1, <1>2

(* Steps on the local store, by any number of processes: the version read, the *)
(* backup, one migration.                                                   *)
LEMMA LocalSteps ==
  ASSUME UpgradeInv, NEW p \in Openers, ReadVersion(p) \/ Checkpoint(p) \/ CopyAside(p) \/ applyMigration(p)
  PROVE  UpgradeInv'
<1> USE DEF UpgradeInv
<1>1. PICK o : o = opener[p] OBVIOUS
<1>2. ver \in Int /\ data \in Int BY DEF UpgradeTypes
<1>3. kind = "local"
  BY OpenerKinds DEF ReadVersion, Checkpoint, CopyAside, applyMigration
<1>4. ver >= 0 /\ \A q \in Openers : opener[q] # Resting => opener[q].next \in 1 .. ver + 1 BY <1>3 DEF NextInv
<1>5. ASSUME o.at \in {"checkpoint", "apply", "copy"} PROVE o \in AtLocal /\ o # Resting /\ o.next \in 1 .. ver + 1
  BY <1>1, <1>4, <1>5, OpenerKinds
(* A step that leaves the version as it is.                                 *)
<1>6. ASSUME NEW s \in {Resting} \cup AtLocal, s # Resting => s.next \in 1 .. ver + 1, Goto(p, s),
             backups' \subseteq Copies, UNCHANGED <<kind, ver, data, rows, applied, left>>
      PROVE  UpgradeInv'
  <2>1. opener'[p] = s /\ \A q \in Openers : q # p => opener'[q] = opener[q] BY <1>6, Moved
  <2>2. UpgradeTypes' BY <1>3, <1>6, <2>1 DEF UpgradeTypes, Goto
  <2>3. AppliedInv' BY <1>6 DEF AppliedInv
  <2>4. LeftInv' /\ LockInv' BY <1>3, <1>6 DEF LeftInv, LockInv
  <2>5. NextInv' BY <1>4, <1>6, <2>1 DEF NextInv
  <2> QED BY <2>2, <2>3, <2>4, <2>5
<1>7. backups \subseteq Copies BY DEF UpgradeTypes
<1>8. CASE ReadVersion(p)
  <2>1. PICK s : s = [at |-> IF ver > 0 THEN "checkpoint" ELSE "apply", next |-> ver + 1] OBVIOUS
  <2>2. s \in AtLocal /\ s.next = ver + 1 BY <1>2, <2>1 DEF AtLocal
  <2>3. s.next \in 1 .. ver + 1 BY <1>2, <1>4, <2>2
  <2>4. Goto(p, s) /\ UNCHANGED <<kind, ver, data, rows, backups, applied, left>> BY <1>8, <2>1 DEF ReadVersion
  <2> QED BY <1>6, <1>7, <2>2, <2>3, <2>4
<1>9. CASE Checkpoint(p)
  <2>1. PICK s : s = [at |-> "copy", next |-> o.next, had |-> <<ver, data>>] OBVIOUS
  <2>2. o.at = "checkpoint" /\ Goto(p, s) /\ UNCHANGED <<kind, ver, data, rows, backups, applied, left>>
    BY <1>1, <1>9, <2>1 DEF Checkpoint
  <2>3. s \in AtLocal /\ s.next = o.next BY <1>2, <1>5, <2>1, <2>2 DEF AtLocal
  <2> QED BY <1>5, <1>6, <1>7, <2>2, <2>3
<1>10. CASE CopyAside(p)
  <2>1. PICK s : s = [at |-> "apply", next |-> o.next] OBVIOUS
  <2>2. o.at = "copy" /\ Goto(p, s) /\ UNCHANGED <<kind, ver, data, rows, applied, left>>
    BY <1>1, <1>10, <2>1 DEF CopyAside
  <2>3. PICK d \in {o.had[2], Torn} : backups' = backups \cup {Copy(o.next - 1, d)} BY <1>1, <1>10 DEF CopyAside
  <2>4. o.next \in Int /\ o.had \in Int \X Int BY <1>5, <2>2 DEF AtLocal
  <2>5. Copy(o.next - 1, d) \in Copies BY <2>4 DEF Copy, Copies, Torn
  <2>6. s \in AtLocal /\ s.next = o.next BY <2>1, <2>4 DEF AtLocal
  <2> QED BY <1>5, <1>6, <1>7, <2>2, <2>3, <2>5, <2>6
<1>11. CASE applyMigration(p)
  <2>1. o.at = "apply" /\ UNCHANGED <<kind, data, rows, backups, left>> BY <1>1, <1>11 DEF applyMigration
  <2>2. o \in AtLocal /\ o.next \in 1 .. ver + 1 BY <1>5, <2>1
  <2>3. CASE Goto(p, Resting) /\ UNCHANGED <<ver, applied>> BY <1>6, <1>7, <2>1, <2>3
  <2>4. CASE ~Conflicts(p) /\ Install(o.next) /\ Goto(p, [o EXCEPT !.next = @ + 1])
    <3>1. o.next = ver + 1 /\ o.next \in Int /\ o.next >= 1 BY <1>1, <1>2, <1>4, <2>2, <2>4 DEF Conflicts
    <3>2. kind # "authority" /\ kind # "journal" BY <1>3
    <3>3. applied' \in Seq(Int) /\ AppliedInv' /\ ver' = ver + 1 BY <2>1, <2>4, <3>1, <3>2, Installs
    <3>4. PICK s : s = [o EXCEPT !.next = @ + 1] OBVIOUS
    <3>5. s \in AtLocal /\ s.next = ver + 2 BY <1>2, <2>1, <2>2, <3>1, <3>4 DEF AtLocal
    <3>6. opener'[p] = s /\ \A q \in Openers : q # p => opener'[q] = opener[q] BY <2>4, <3>4, Moved
    <3>7. Goto(p, s) /\ ver + 1 \in Int BY <1>2, <2>4, <3>4
    <3>8. UpgradeTypes' BY <1>3, <2>1, <3>7, <3>3, <3>5, <3>6 DEF UpgradeTypes, Goto
    <3>9. LeftInv' /\ LockInv' BY <1>3, <2>1 DEF LeftInv, LockInv
    <3>10. NextInv'
      <4> SUFFICES ASSUME NEW q \in Openers, opener'[q] # Resting PROVE opener'[q].next \in 1 .. ver + 2
        BY <1>2, <1>4, <3>3 DEF NextInv
      <4>1. CASE q = p BY <1>2, <1>4, <3>5, <3>6, <4>1
      <4>2. CASE q # p BY <1>2, <1>4, <3>6, <4>2
      <4> QED BY <4>1, <4>2
    <3> QED BY <3>3, <3>8, <3>9, <3>10
  <2> QED BY <1>1, <1>11, <2>3, <2>4 DEF applyMigration
<1> QED BY <1>8, <1>9, <1>10, <1>11

(* A process comes to rest, at its end or by a crash; what a backup file gains *)
(* by it (Crash in the middle of a copy) harms no other.                    *)
LEMMA Rests ==
  ASSUME UpgradeInv, NEW p \in Openers, Goto(p, Resting), backups' \subseteq Copies, backups \subseteq backups',
         UNCHANGED <<kind, ver, data, rows, applied, left>>
  PROVE  UpgradeInv'
<1> USE DEF UpgradeInv
<1>1. opener'[p] = Resting /\ \A q \in Openers : q # p => opener'[q] = opener[q] BY Moved
<1>2. UpgradeTypes' BY <1>1 DEF UpgradeTypes, Goto
<1>3. AppliedInv' BY DEF AppliedInv
<1>4. LeftInv' BY DEF LeftInv
<1>5. LockInv'
  <2> SUFFICES ASSUME kind = "authority", NEW q \in Openers, opener'[q] # Resting
               PROVE  Covered(opener[q])' /\ \A r \in Openers : opener'[r] # Resting => q = r
    BY DEF LockInv
  <2>1. opener'[q] = opener[q] /\ Covered(opener[q]) BY <1>1 DEF LockInv
  <2>2. Covered(opener[q])' BY <2>1 DEF Covered
  <2>3. \A r \in Openers : opener'[r] # Resting => q = r BY <1>1 DEF LockInv
  <2> QED BY <2>2, <2>3
<1>6. NextInv' BY <1>1 DEF NextInv
<1> QED BY <1>2, <1>3, <1>4, <1>5, <1>6

(* A write of the running release, and the operator's removal of a backup that *)
(* the upgrade of the store's version refuses.                              *)
LEMMA BetweenUpgrades ==
  ASSUME UpgradeInv, Write \/ RemoveBackup
  PROVE  UpgradeInv'
<1> USE DEF UpgradeInv
<1>1. kind # "local" => \A q \in Openers : opener[q] = Resting
  BY DEF Write, RemoveBackup, Locked, UpgradeTypes
<1>2. UNCHANGED <<kind, ver, rows, opener, applied, left>> /\ backups' \subseteq backups /\ data' \in Int
  BY DEF Write, RemoveBackup, UpgradeTypes
<1>3. UpgradeTypes' BY <1>2 DEF UpgradeTypes
<1>4. AppliedInv' /\ NextInv' BY <1>2 DEF AppliedInv, NextInv
<1>5. LockInv' BY <1>1, <1>2 DEF LockInv
<1>6. LeftInv'
  <2>1. CASE Write BY <2>1 DEF Write, LeftInv
  <2>2. CASE RemoveBackup
    <3>1. ver \in Int /\ \A l \in left : l.from \in Int BY DEF UpgradeTypes, Copies
    <3> QED BY <1>2, <2>2, <3>1 DEF RemoveBackup, BackupsOf, LeftInv
  <2> QED BY <2>1, <2>2
<1> QED BY <1>3, <1>4, <1>5, <1>6

(* Every store begins with the invariant, whichever release left it.        *)
LEMMA UpgradeStarts == InitUpgrade => UpgradeInv
<1> SUFFICES ASSUME NEW k \in {"authority", "journal", "local"}, NEW v \in Absent .. 20, NEW r \in Rows,
                    Leftover(k, v, r), InitUpgrades(k, v, r, Openers)
             PROVE  UpgradeInv
  BY DEF InitUpgrade
<1>1. /\ kind = k /\ ver = v /\ data = 0 /\ rows = r /\ backups = {} /\ applied = <<>> /\ left = {}
      /\ opener = [p \in Openers |-> Resting]
  BY DEF InitUpgrades
<1>2. v \in Int /\ (k = "local" => v >= 0) BY DEF Absent, Leftover
<1>3. (k = "journal" /\ v # 1 => r # "journaled") /\ (k = "authority" /\ v > 12 => r # "unfolded")
  BY <1>2 DEF Leftover
<1>4. UpgradeTypes BY <1>1, <1>2 DEF UpgradeTypes
<1>5. AppliedInv /\ LeftInv /\ LockInv /\ NextInv BY <1>1, <1>2, <1>3 DEF AppliedInv, LeftInv, LockInv, NextInv
<1> QED BY <1>4, <1>5 DEF UpgradeInv

(* Every step keeps the invariant.                                          *)
LEMMA UpgradeKeeps == UpgradeInv /\ [UpgradeStep]_upgradeVars => UpgradeInv'
<1> SUFFICES ASSUME UpgradeInv, [UpgradeStep]_upgradeVars PROVE UpgradeInv' OBVIOUS
<1>1. DOMAIN opener = Openers /\ backups \subseteq Copies BY DEF UpgradeInv, UpgradeTypes
<1>2. CASE UNCHANGED upgradeVars
  BY <1>2 DEF upgradeVars, UpgradeInv, UpgradeTypes, AppliedInv, LeftInv, LockInv, NextInv, Covered
<1>3. ASSUME NEW p \in Openers, Progress(p) PROVE UpgradeInv'
  <2>1. CASE CreateEmpty(p) \/ UpgradeAny(p) BY <2>1, UpgradeForms, AuthorityStarts
  <2>2. CASE Vacuum(p) \/ InstallAny(p) BY <2>2, UpgradeForms, AuthorityGoesOn
  <2>3. CASE initBlobDir(p)
    BY <2>3 DEF initBlobDir, UpgradeInv, UpgradeTypes, AppliedInv, LeftInv, LockInv, NextInv, Covered
  <2>4. CASE Installed(p) \/ InstallRefused(p) \/ OpenedJournal(p)
    BY <1>1, <2>4, Rests DEF Installed, InstallRefused, OpenedJournal
  <2>5. CASE OpenJournal(p) \/ UpgradeSchema(p) BY <2>5, JournalSteps
  <2>6. CASE ReadVersion(p) \/ Checkpoint(p) \/ CopyAside(p) \/ applyMigration(p) BY <2>6, LocalSteps
  <2>7. CASE rebuildStep13Projection(p)
    <3>1. /\ kind = "authority" /\ rows' = "plain"
          /\ UNCHANGED <<kind, ver, data, backups, opener, applied, left>>
      BY <2>7 DEF rebuildStep13Projection
    <3>2. UpgradeTypes' /\ AppliedInv' BY <3>1 DEF UpgradeInv, UpgradeTypes, AppliedInv
    <3>3. LeftInv' /\ LockInv' /\ NextInv' BY <3>1 DEF UpgradeInv, LeftInv, LockInv, NextInv, Covered
    <3> QED BY <3>2, <3>3 DEF UpgradeInv
  <2> QED BY <1>3, <2>1, <2>2, <2>3, <2>4, <2>5, <2>6, <2>7 DEF Progress
<1>4. ASSUME NEW p \in Openers, Crash(p) PROVE UpgradeInv'
  <2>1. ASSUME opener[p].at = "copy" PROVE Copy(opener[p].next - 1, Torn) \in Copies
    <3>1. opener[p] \in AtLocal BY <2>1, OpenerKinds DEF UpgradeInv
    <3>2. opener[p].next \in Int BY <3>1 DEF AtLocal
    <3> QED BY <3>2 DEF Copy, Copies, Torn
  <2>2. backups' \subseteq Copies /\ backups \subseteq backups' BY <1>1, <1>4, <2>1 DEF Crash
  <2> QED BY <1>4, <2>2, Rests DEF Crash
<1> QED BY <1>1, <1>2, <1>3, <1>4, BetweenUpgrades DEF UpgradeStep

(* Whatever release left a store and however often processes stop, begin again *)
(* or write between: an UpgradeVn leaves the backup it promises, versions are *)
(* installed once and in order, no command of the first release stays as it *)
(* was journaled, and nothing is installed over a projection that was not   *)
(* built (UpgradeVn of internal/authoritystore, the journal's                *)
(* upgradeSchemaVn, the local store's migrate).                             *)
THEOREM UpgradesAreWhole == UpgradeSpec => []UpgradedWhole
<1>1. UpgradeInv => UpgradedWhole
  <2> SUFFICES ASSUME UpgradeInv PROVE UpgradedWhole OBVIOUS
  <2>1. \A l \in left : l.from > 1 => l \in backups BY DEF UpgradeInv, LeftInv
  <2> QED BY <2>1 DEF UpgradeInv, UpgradedWhole, AppliedInv
<1> QED BY <1>1, UpgradeStarts, UpgradeKeeps, PTL DEF UpgradeSpec
=============================================================================
