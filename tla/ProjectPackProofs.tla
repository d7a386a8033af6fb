-------------------------- MODULE ProjectPackProofs --------------------------
(***************************************************************************)
(* Proofs about ProjectPack, for any number of compilers, sources, configs *)
(* and runs.                                                               *)
(***************************************************************************)
EXTENDS ProjectPack, TLAPS

-------------------------------------------------------------------------------
(* Sequences and packs                                                     *)

LEMMA Replaced ==
  ASSUME NEW S, NEW s \in Seq(S), NEW i \in 1..Len(s), NEW x \in S
  PROVE  /\ [s EXCEPT ![i] = x] \in Seq(S)
         /\ Len([s EXCEPT ![i] = x]) = Len(s)
         /\ [s EXCEPT ![i] = x][i] = x
         /\ \A j \in 1..Len(s) : j # i => [s EXCEPT ![i] = x][j] = s[j]
  OBVIOUS

LEMMA Appended ==
  ASSUME NEW S, NEW s \in Seq(S), NEW x \in S
  PROVE  /\ Append(s, x) \in Seq(S)
         /\ Len(Append(s, x)) = Len(s) + 1
         /\ Append(s, x)[Len(s) + 1] = x
         /\ \A j \in 1..Len(s) : Append(s, x)[j] = s[j]
  OBVIOUS

LEMMA PackedType ==
  ASSUME NEW m \in Metas
  PROVE  /\ Packed(m) \in Metas
         /\ Packed(m) # None
         /\ Size(m) \in 1..2
         /\ Size(Packed(m)) \in 1..2
  <1>1. Packed(m) \in Metas
    BY DEF Packed, Metas
  <1>2. Packed(m) # None
    BY <1>1, PackAssumption
  <1> QED
    BY <1>1, <1>2 DEF Size

LEMMA OverType ==
  ASSUME NEW c \in Contents, NEW m \in Metas
  PROVE  /\ Over(c, Packed(m)) \in Contents
         /\ Over(c, Packed(m)).meta \in {Packed(m), None}
         /\ c.size = 0 => Over(c, Packed(m)).meta = Packed(m)
  <1>1. Packed(m) \in Metas /\ Size(Packed(m)) \in 1..2
    BY PackedType
  <1>2. c.size \in 0..2
    BY DEF Contents
  <1>3. CASE c.size <= Size(Packed(m))
    BY <1>1, <1>2, <1>3 DEF Over, Contents
  <1>4. CASE ~(c.size <= Size(Packed(m)))
    BY <1>1, <1>2, <1>4 DEF Over, Contents
  <1> QED
    BY <1>3, <1>4

LEMMA WantedType ==
  ASSUME NEW h \in Hashes, NEW c \in ConfigType
  PROVE  Wanted(h, c) \in Metas
  BY DEF Wanted, OwnFlags, Metas, ConfigType

LEMMA UnwrittenType == Unwritten \in Contents
  BY DEF Unwritten, Contents

-------------------------------------------------------------------------------
(* Type correctness                                                        *)

LEMMA InitTyped == Init => TypeOK
  <1> SUFFICES ASSUME Init PROVE TypeOK
    OBVIOUS
  <1>1. config \in ConfigType
    BY PackAssumption DEF Init
  <1>2. mine \in [Procs -> Metas]
    BY <1>1, WantedType DEF Init
  <1>3. content \in Seq(Contents)
    BY DEF Init
  <1>4. Len(content) = 0
    BY DEF Init
  <1> QED
    BY <1>1, <1>2, <1>3, <1>4 DEF Init, TypeOK, Inodes, Steps

(* What the steps leave alone, by what they say of it.                      *)
LEMMA CountersTyped ==
  ASSUME TypeOK, NEW p \in Procs, NEW kind \in Troubles, Fine \/ Fails(p, kind)
  PROVE  faults' \in Nat /\ calm' \in [Procs -> BOOLEAN] /\ trouble' \subseteq Troubles
  <1>1. CASE Fine
    BY <1>1 DEF TypeOK, Fine
  <1>2. CASE Fails(p, kind)
    <2>1. faults' \in Nat
      BY <1>2 DEF TypeOK, Fails
    <2>2. calm' \in [Procs -> BOOLEAN]
      <3>1. calm \in [Procs -> BOOLEAN] /\ calm' = [calm EXCEPT ![p] = FALSE]
        BY <1>2 DEF TypeOK, Fails
      <3> QED
        BY <3>1, Zenon
    <2>3. trouble' \subseteq Troubles
      BY <1>2 DEF TypeOK, Fails
    <2> QED
      BY <2>1, <2>2, <2>3
  <1> QED
    BY <1>1, <1>2

LEMMA FilesTyped ==
  ASSUME TypeOK, NEW p \in Procs, UNCHANGED <<files, fd>>,
         NEW step \in Steps \ {"flush"}, Goto(p, step)
  PROVE  /\ content' \in Seq(Contents)
         /\ pack' \in Inodes'
         /\ tmp' \in Inodes'
         /\ pack' # 0 => pack' # tmp'
         /\ pc' \in [Procs -> Steps]
         /\ fd' \in [Procs -> Inodes']
         /\ \A q \in Procs : pc'[q] = "flush" => fd'[q] # 0
  BY DEF TypeOK, files, Goto, Inodes

LEMMA StepTyped ==
  ASSUME TypeOK, [Next]_vars
  PROVE  TypeOK'
  <1> USE DEF Troubles, Steps
  <1>1. CASE UNCHANGED vars
    BY <1>1 DEF vars, files, ghosts, TypeOK, Inodes
  <1>2. CASE EditConfig
    <2>1. config' \in ConfigType
      BY <1>2, PackAssumption DEF EditConfig
    <2> QED
      BY <1>2, <2>1 DEF EditConfig, files, ghosts, TypeOK, Inodes
  <1>3. ASSUME NEW p \in Procs, NEW h \in Hashes, Begin(p, h)
        PROVE  TypeOK'
    <2>1. Wanted(h, config) \in Metas /\ Packed(Wanted(h, config)) \in Metas
      BY WantedType, PackedType DEF TypeOK
    <2>2. mine' \in [Procs -> Metas] /\ begun' \subseteq Metas
      BY <1>3, <2>1 DEF Begin, TypeOK
    <2>3. Goto(p, "read") /\ UNCHANGED <<files, fd>>
      BY <1>3 DEF Begin
    <2>4. calm' \in [Procs -> BOOLEAN]
      BY <1>3 DEF Begin
    <2>5. /\ config' \in ConfigType /\ runs' \in Nat /\ edits' \in Nat /\ faults' \in Nat
          /\ trouble' \subseteq Troubles
      BY <1>3 DEF Begin, TypeOK
    <2> QED
      BY <2>2, <2>3, <2>4, <2>5, FilesTyped DEF TypeOK
  <1>4. ASSUME NEW p \in Procs, Crash(p) \/ End(p)
        PROVE  TypeOK'
    <2>1. Goto(p, "idle") /\ UNCHANGED <<files, fd>> /\ (Fine \/ Fails(p, "crash"))
      BY <1>4 DEF Crash, End
    <2>2. begun' \subseteq Metas
      BY <1>4 DEF Crash, End, Quiesce, TypeOK
    <2>3. config' \in ConfigType /\ mine' \in [Procs -> Metas] /\ runs' \in Nat /\ edits' \in Nat
      BY <1>4 DEF Crash, End, TypeOK
    <2> QED
      BY <2>1, <2>2, <2>3, FilesTyped, CountersTyped DEF TypeOK
  <1>5. ASSUME NEW p \in Procs, Running,
               \E kind \in Troubles : Fine \/ Fails(p, kind),
               content' \in Seq(Contents), pack' \in Inodes', tmp' \in Inodes',
               pack' # 0 => pack' # tmp', pc' \in [Procs -> Steps],
               fd' \in [Procs -> Inodes'],
               \A q \in Procs : pc'[q] = "flush" => fd'[q] # 0
        PROVE  TypeOK'
    <2>1. /\ config' \in ConfigType /\ mine' \in [Procs -> Metas] /\ runs' \in Nat
          /\ edits' \in Nat /\ begun' \subseteq Metas
      BY <1>5 DEF Running, TypeOK
    <2>2. faults' \in Nat /\ calm' \in [Procs -> BOOLEAN] /\ trouble' \subseteq Troubles
      BY <1>5, CountersTyped
    <2> QED
      BY <1>5, <2>1, <2>2 DEF TypeOK
  <1>6. ASSUME NEW p \in Procs, Read(p) \/ OpenFails(p) \/ RenameFails(p)
        PROVE  TypeOK'
    <2>1. \E step \in Steps \ {"flush"} : Goto(p, step)
      BY <1>6 DEF Read, OpenFails, RenameFails
    <2>2. UNCHANGED <<files, fd>> /\ Running
      BY <1>6 DEF Read, OpenFails, RenameFails
    <2>3. \E kind \in Troubles : Fine \/ Fails(p, kind)
      BY <1>6 DEF Read, OpenFails, RenameFails
    <2> QED
      BY <1>5, <2>1, <2>2, <2>3, FilesTyped
  <1>7. ASSUME NEW p \in Procs, Delete(p) \/ Remove(p)
        PROVE  TypeOK'
    <2>1. pack' \in {0, pack} /\ tmp' \in {0, tmp} /\ UNCHANGED <<content, fd>> /\ Running
      BY <1>7 DEF Delete, Remove
    <2>2. \E step \in Steps \ {"flush"} : Goto(p, step)
      BY <1>7 DEF Delete, Remove
    <2>3. \E kind \in Troubles : Fine \/ Fails(p, kind)
      BY <1>7 DEF Delete, Remove
    <2>4. /\ content' \in Seq(Contents) /\ pack' \in Inodes' /\ tmp' \in Inodes'
          /\ (pack' # 0 => pack' # tmp') /\ fd' \in [Procs -> Inodes']
      BY <2>1 DEF TypeOK, Inodes
    <2>5. pc' \in [Procs -> Steps] /\ \A q \in Procs : pc'[q] = "flush" => fd'[q] # 0
      BY <2>1, <2>2 DEF TypeOK, Goto
    <2> QED
      BY <1>5, <2>1, <2>3, <2>4, <2>5
  <1>8. ASSUME NEW p \in Procs, Open(p)
        PROVE  TypeOK'
    <2>1. /\ content' \in Seq(Contents) /\ Len(content') >= Len(content)
          /\ tmp' \in 1..Len(content') /\ (pack # 0 => pack # tmp')
      <3>1. CASE tmp = 0
        <4>1. content' = Append(content, Unwritten) /\ tmp' = Len(content) + 1
          BY <1>8, <3>1 DEF Open
        <4>2. content' \in Seq(Contents) /\ Len(content') = Len(content) + 1
          BY <4>1, Appended, UnwrittenType DEF TypeOK
        <4>3. Len(content) \in Nat /\ pack \in 0..Len(content)
          BY DEF TypeOK, Inodes
        <4> QED
          BY <4>1, <4>2, <4>3
      <3>2. CASE tmp # 0
        BY <1>8, <3>2, Replaced, UnwrittenType DEF Open, TypeOK, Inodes
      <3> QED
        BY <3>1, <3>2
    <2>2. Len(content) \in Nat /\ Len(content') \in Nat
      BY <2>1 DEF TypeOK
    <2>3. pack' \in Inodes' /\ tmp' \in Inodes' /\ (pack' # 0 => pack' # tmp')
      BY <1>8, <2>1, <2>2 DEF Open, TypeOK, Inodes
    <2>4. fd' \in [Procs -> Inodes']
      <3>1. \A q \in Procs : fd[q] \in Inodes'
        BY <2>1, <2>2 DEF TypeOK, Inodes
      <3> QED
        BY <1>8, <2>3, <3>1 DEF Open, TypeOK
    <2>5. pc' \in [Procs -> Steps] /\ \A q \in Procs : pc'[q] = "flush" => fd'[q] # 0
      BY <1>8, <2>1 DEF Open, Goto, TypeOK
    <2>6. Running /\ \E kind \in Troubles : Fine \/ Fails(p, kind)
      BY <1>8 DEF Open
    <2> QED
      BY <1>5, <2>1, <2>3, <2>4, <2>5, <2>6
  <1>9. ASSUME NEW p \in Procs, Flush(p) \/ FlushShort(p)
        PROVE  TypeOK'
    <2>1. fd[p] \in 1..Len(content) /\ content[fd[p]] \in Contents /\ mine[p] \in Metas
      BY <1>9 DEF Flush, FlushShort, At, TypeOK, Inodes
    <2>2. \E c \in Contents : content' = [content EXCEPT ![fd[p]] = c]
      <3>1. CASE Flush(p)
        BY <2>1, <3>1, OverType DEF Flush
      <3>2. CASE FlushShort(p)
        <4>1. PICK s \in content[fd[p]].size..2 :
                content' = [content EXCEPT ![fd[p]] = [size |-> s, meta |-> None]]
          BY <3>2 DEF FlushShort
        <4>2. s \in 0..2
          BY <2>1, <4>1 DEF Contents
        <4>3. [size |-> s, meta |-> None] \in Contents
          BY <4>2 DEF Contents
        <4> QED
          BY <4>1, <4>3
      <3> QED
        BY <1>9, <3>1, <3>2
    <2>3. content' \in Seq(Contents) /\ Len(content') = Len(content)
      BY <2>1, <2>2, Replaced DEF TypeOK
    <2>4. UNCHANGED <<pack, tmp, fd>> /\ Running
      BY <1>9 DEF Flush, FlushShort
    <2>5. \E step \in Steps \ {"flush"} : Goto(p, step)
      BY <1>9 DEF Flush, FlushShort
    <2>6. \E kind \in Troubles : Fine \/ Fails(p, kind)
      BY <1>9 DEF Flush, FlushShort
    <2>7. pc' \in [Procs -> Steps] /\ \A q \in Procs : pc'[q] = "flush" => fd'[q] # 0
      BY <2>4, <2>5 DEF Goto, TypeOK
    <2>8. /\ pack' \in Inodes' /\ tmp' \in Inodes' /\ (pack' # 0 => pack' # tmp')
          /\ fd' \in [Procs -> Inodes']
      BY <2>3, <2>4 DEF TypeOK, Inodes
    <2> QED
      BY <1>5, <2>3, <2>4, <2>6, <2>7, <2>8
  <1>10. ASSUME NEW p \in Procs, Rename(p)
         PROVE  TypeOK'
    <2>1. pack' = tmp /\ tmp' = 0 /\ UNCHANGED <<content, fd>> /\ Running /\ Fine
      BY <1>10 DEF Rename
    <2>2. pc' \in [Procs -> Steps] /\ \A q \in Procs : pc'[q] = "flush" => fd'[q] # 0
      BY <1>10 DEF Rename, Goto, TypeOK
    <2>3. /\ content' \in Seq(Contents) /\ pack' \in Inodes' /\ tmp' \in Inodes'
          /\ (pack' # 0 => pack' # tmp') /\ fd' \in [Procs -> Inodes']
      BY <2>1 DEF TypeOK, Inodes
    <2> QED
      BY <1>5, <2>1, <2>2, <2>3
  <1> QED
    BY <1>1, <1>2, <1>3, <1>4, <1>6, <1>7, <1>8, <1>9, <1>10 DEF Next, Sync

(* No compiler ever writes to an inode that is not there, and the inode    *)
(* that is truncated and written is never the one others read as the pack. *)
THEOREM PackTyped == Spec => []TypeOK
  <1>1. Init => TypeOK
    BY InitTyped
  <1>2. TypeOK /\ [Next]_vars => TypeOK'
    BY StepTyped
  <1> QED
    BY <1>1, <1>2, PTL DEF Spec

-------------------------------------------------------------------------------
(* Whose the temporary file is                                             *)

Holding == {"flush", "rename", "remove"}

LEMMA OwnerComes ==
  ASSUME TypeOK, NEW p \in Procs, NEW step \in Holding, Goto(p, step)
  PROVE  TmpOwned'
  BY DEF TypeOK, Holding, Goto, TmpOwned

LEMMA OwnerStays ==
  ASSUME TypeOK, TmpOwned, NEW p \in Procs, pc[p] \notin Holding,
         NEW step \in Steps, Goto(p, step), tmp' = tmp, trouble \subseteq trouble'
  PROVE  TmpOwned'
  BY DEF TypeOK, Holding, Goto, TmpOwned

LEMMA TroubleGrows ==
  ASSUME NEW p \in Procs, NEW kind \in Troubles, Fine \/ Fails(p, kind)
  PROVE  trouble \subseteq trouble'
  BY DEF Fine, Fails

LEMMA StepOwned ==
  ASSUME TypeOK, TmpOwned, [Next]_vars
  PROVE  TmpOwned'
  <1>1. CASE UNCHANGED vars
    BY <1>1 DEF vars, files, ghosts, TmpOwned
  <1>2. CASE EditConfig
    BY <1>2 DEF EditConfig, files, ghosts, TmpOwned
  <1>3. ASSUME NEW p \in Procs, NEW h \in Hashes, Begin(p, h)
        PROVE  TmpOwned'
    <2>1. pc[p] \notin Holding /\ Goto(p, "read") /\ tmp' = tmp /\ trouble \subseteq trouble'
      BY <1>3 DEF Begin, At, files, Holding
    <2> QED
      BY <2>1, OwnerStays DEF Steps
  <1>4. ASSUME NEW p \in Procs, Read(p) \/ Delete(p) \/ OpenFails(p) \/ End(p)
        PROVE  TmpOwned'
    <2>1. pc[p] \notin Holding /\ tmp' = tmp
      BY <1>4 DEF Read, Delete, OpenFails, End, At, files, Holding
    <2>2. \E step \in Steps : Goto(p, step)
      BY <1>4 DEF Read, Delete, OpenFails, End, Steps
    <2>3. \E kind \in Troubles : Fine \/ Fails(p, kind)
      BY <1>4 DEF Read, Delete, OpenFails, End, Troubles
    <2>4. trouble \subseteq trouble'
      BY <2>3, TroubleGrows
    <2> QED
      BY <2>1, <2>2, <2>4, OwnerStays
  <1>5. ASSUME NEW p \in Procs, Open(p) \/ Flush(p) \/ FlushShort(p) \/ RenameFails(p)
        PROVE  TmpOwned'
    <2>1. \E step \in Holding : Goto(p, step)
      BY <1>5 DEF Open, Flush, FlushShort, RenameFails, Holding
    <2> QED
      BY <2>1, OwnerComes
  <1>6. ASSUME NEW p \in Procs, Rename(p) \/ Remove(p)
        PROVE  TmpOwned'
    <2>1. tmp' = 0 \/ "remove" \in trouble'
      BY <1>6 DEF Rename, Remove, Fails
    <2> QED
      BY <2>1 DEF TmpOwned
  <1>7. ASSUME NEW p \in Procs, Crash(p)
        PROVE  TmpOwned'
    <2>1. "crash" \in trouble'
      BY <1>7 DEF Crash, Fails
    <2> QED
      BY <2>1 DEF TmpOwned
  <1> QED
    BY <1>1, <1>2, <1>3, <1>4, <1>5, <1>6, <1>7 DEF Next, Sync

(* However many compilers share the temporary name, the file that has it   *)
(* is going to be renamed or removed by one of them, unless a crash or a   *)
(* failed removal left it.                                                 *)
THEOREM TmpIsOwned == Spec => []TmpOwned
  <1>1. Init => TmpOwned
    BY DEF Init, TmpOwned
  <1>2. TypeOK /\ TmpOwned /\ [Next]_vars => TmpOwned'
    BY StepOwned
  <1> QED
    BY <1>1, <1>2, PackTyped, PTL DEF Spec

-------------------------------------------------------------------------------
(* The pack is replaced at once                                            *)

Undisturbed == trouble \cap {"overlap", "short"} = {}

(* While nothing overlapped and no short write went by unseen, whoever     *)
(* runs is alone, so the temporary name is that of the file it has open,   *)
(* and what it renames has been written whole.                             *)
Replacing ==
  Undisturbed =>
    /\ \A p, q \in Procs : pc[p] # "idle" /\ pc[q] # "idle" => p = q
    /\ \A p \in Procs : pc[p] = "flush" => fd[p] = tmp /\ content[tmp].size = 0
    /\ \A p \in Procs : pc[p] = "rename" /\ tmp # 0 => content[tmp].meta # None
    /\ pack # 0 => content[pack].meta # None

(* A step that writes no file and leads p neither to flush nor to rename.  *)
LEMMA ReplacingKept ==
  ASSUME TypeOK, Replacing, trouble \subseteq trouble',
         NEW p \in Procs, pc[p] # "idle",
         NEW step \in Steps \ {"flush", "rename"}, Goto(p, step),
         UNCHANGED <<content, fd>>, pack' \in {0, pack}
  PROVE  Replacing'
  <1> SUFFICES ASSUME Undisturbed'
               PROVE  Replacing'
    BY DEF Replacing
  <1>1. Undisturbed
    BY DEF Undisturbed
  <1>2. \A q \in Procs : q # p => pc[q] = "idle" /\ pc'[q] = "idle"
    BY <1>1 DEF Replacing, Goto, TypeOK
  <1>3. pc'[p] = step
    BY DEF Goto, TypeOK
  <1>4. pack' # 0 => content'[pack'].meta # None
    BY <1>1 DEF Replacing
  <1> QED
    BY <1>2, <1>3, <1>4 DEF Replacing

LEMMA StepReplacing ==
  ASSUME TypeOK, Replacing, [Next]_vars
  PROVE  Replacing'
  <1>1. CASE UNCHANGED vars
    BY <1>1 DEF vars, files, ghosts, Replacing, Undisturbed
  <1>2. CASE EditConfig
    BY <1>2 DEF EditConfig, files, ghosts, Replacing, Undisturbed
  <1>3. ASSUME NEW p \in Procs, NEW h \in Hashes, Begin(p, h)
        PROVE  Replacing'
    <2> SUFFICES ASSUME Undisturbed'
                 PROVE  Replacing'
      BY DEF Replacing
    <2>1. AllIdle /\ trouble' = trouble
      BY <1>3 DEF Begin, Undisturbed
    <2>2. pc' = [pc EXCEPT ![p] = "read"] /\ UNCHANGED <<content, pack>>
      BY <1>3 DEF Begin, Goto, files
    <2>3. \A q \in Procs : q # p => pc'[q] = "idle"
      BY <2>1, <2>2 DEF AllIdle, TypeOK
    <2>4. pc'[p] = "read"
      BY <2>2 DEF TypeOK
    <2>5. pack' # 0 => content'[pack'].meta # None
      BY <2>1, <2>2 DEF Replacing, Undisturbed
    <2> QED
      BY <2>3, <2>4, <2>5 DEF Replacing
  <1>4. ASSUME NEW p \in Procs,
               \/ Read(p) \/ Delete(p) \/ OpenFails(p) \/ RenameFails(p)
               \/ Remove(p) \/ End(p) \/ Crash(p)
        PROVE  Replacing'
    <2>1. pc[p] # "idle"
      BY <1>4 DEF Read, Delete, OpenFails, RenameFails, Remove, End, Crash, At
    <2>2. \E step \in Steps \ {"flush", "rename"} : Goto(p, step)
      BY <1>4 DEF Read, Delete, OpenFails, RenameFails, Remove, End, Crash, Steps
    <2>3. \E kind \in Troubles : Fine \/ Fails(p, kind)
      BY <1>4 DEF Read, Delete, OpenFails, RenameFails, Remove, End, Crash, Troubles
    <2>4. trouble \subseteq trouble'
      BY <2>3, TroubleGrows
    <2>5. UNCHANGED <<content, fd>> /\ pack' \in {0, pack}
      BY <1>4 DEF Read, Delete, OpenFails, RenameFails, Remove, End, Crash, files
    <2> QED
      BY <2>1, <2>2, <2>4, <2>5, ReplacingKept
  <1>5. ASSUME NEW p \in Procs, Open(p) \/ Flush(p) \/ FlushShort(p) \/ Rename(p)
        PROVE  Replacing'
    <2> SUFFICES ASSUME Undisturbed'
                 PROVE  Replacing'
      BY DEF Replacing
    <2>1. \E kind \in Troubles : Fine \/ Fails(p, kind)
      BY <1>5 DEF Open, Flush, FlushShort, Rename, Troubles
    <2>2. Undisturbed
      BY <2>1, TroubleGrows DEF Undisturbed
    <2>3. pc[p] # "idle"
      BY <1>5 DEF Open, Flush, FlushShort, Rename, At
    <2>4. \E step \in Steps : pc' = [pc EXCEPT ![p] = step]
      BY <1>5 DEF Open, Flush, FlushShort, Rename, Goto, Steps
    <2>5. \A q \in Procs : q # p => pc'[q] = "idle"
      BY <2>2, <2>3, <2>4 DEF Replacing, TypeOK
    <2>6. pack # 0 => content[pack].meta # None
      BY <2>2 DEF Replacing
    <2>7. CASE Open(p)
      <3>1. pc'[p] = "flush" /\ fd'[p] = tmp' /\ pack' = pack
        BY <2>7 DEF Open, Goto, TypeOK
      <3>2. content'[tmp'] = Unwritten /\ (pack # 0 => content'[pack] = content[pack])
        <4>1. content \in Seq(Contents) /\ pack \in 0..Len(content) /\ tmp \in 0..Len(content)
              /\ (pack # 0 => pack # tmp)
          BY DEF TypeOK, Inodes
        <4>2. CASE tmp = 0
          <5>1. content' = Append(content, Unwritten) /\ tmp' = Len(content) + 1
            BY <2>7, <4>2 DEF Open
          <5> QED
            BY <4>1, <5>1, Appended, UnwrittenType
        <4>3. CASE tmp # 0
          <5>1. content' = [content EXCEPT ![tmp] = Unwritten] /\ tmp' = tmp
            BY <2>7, <4>3 DEF Open
          <5>2. Len(content) \in Nat
            BY <4>1
          <5>3. tmp \in 1..Len(content) /\ (pack # 0 => pack \in 1..Len(content))
            BY <4>1, <4>3, <5>2
          <5> QED
            BY <4>1, <5>1, <5>3, Replaced, UnwrittenType
        <4> QED
          BY <4>2, <4>3
      <3>3. content'[tmp'].size = 0
        BY <3>2 DEF Unwritten
      <3> QED
        BY <2>5, <2>6, <3>1, <3>2, <3>3 DEF Replacing
    <2>8. CASE Flush(p)
      <3>1. pc[p] = "flush" /\ pc'[p] = "rename" /\ pack' = pack /\ tmp' = tmp
        BY <2>8 DEF Flush, At, Goto, TypeOK
      <3>2. fd[p] = tmp /\ content[tmp].size = 0 /\ tmp # 0
        BY <2>2, <3>1 DEF Replacing, TypeOK
      <3>3. tmp \in 1..Len(content) /\ content[tmp] \in Contents /\ mine[p] \in Metas
        BY <3>2 DEF TypeOK, Inodes
      <3>4. /\ Over(content[tmp], Packed(mine[p])) \in Contents
            /\ Over(content[tmp], Packed(mine[p])).meta = Packed(mine[p])
            /\ Packed(mine[p]) # None
        BY <3>2, <3>3, OverType, PackedType
      <3>5. content' = [content EXCEPT ![tmp] = Over(content[tmp], Packed(mine[p]))]
        BY <2>8, <3>2 DEF Flush
      <3>6. content'[tmp].meta # None
        BY <3>3, <3>4, <3>5, Replaced DEF TypeOK
      <3>7. pack # 0 => content'[pack] = content[pack]
        <4>1. pack # 0 => pack # tmp /\ pack \in 1..Len(content)
          BY DEF TypeOK, Inodes
        <4> QED
          BY <3>3, <3>4, <3>5, <4>1, Replaced DEF TypeOK
      <3> QED
        BY <2>5, <2>6, <3>1, <3>6, <3>7 DEF Replacing
    <2>9. CASE FlushShort(p)
      <3>1. pc[p] = "flush" /\ pack' = pack /\ tmp' = tmp
        BY <2>9 DEF FlushShort, At
      <3>2. pc'[p] = "remove"
        BY <2>9 DEF FlushShort, Goto, Fails, Undisturbed, TypeOK
      <3>3. fd[p] = tmp /\ tmp # 0
        BY <2>2, <3>1 DEF Replacing, TypeOK
      <3>4. \E c : content' = [content EXCEPT ![tmp] = c]
        BY <2>9, <3>3 DEF FlushShort
      <3>5. pack # 0 => content'[pack] = content[pack]
        <4>1. pack # 0 => pack # tmp /\ pack \in 1..Len(content)
          BY DEF TypeOK, Inodes
        <4>2. content \in Seq(Contents)
          BY DEF TypeOK
        <4> QED
          BY <3>4, <4>1, <4>2
      <3> QED
        BY <2>5, <2>6, <3>1, <3>2, <3>5 DEF Replacing
    <2>10. CASE Rename(p)
      <3>1. /\ pc[p] = "rename" /\ pc'[p] = "done" /\ pack' = tmp /\ tmp' = 0 /\ tmp # 0
            /\ content' = content
        BY <2>10 DEF Rename, At, Goto, TypeOK
      <3>2. content[tmp].meta # None
        BY <2>2, <3>1 DEF Replacing
      <3> QED
        BY <2>5, <3>1, <3>2 DEF Replacing
    <2> QED
      BY <1>5, <2>7, <2>8, <2>9, <2>10
  <1> QED
    BY <1>1, <1>2, <1>3, <1>4, <1>5 DEF Next, Sync

(* A pack that is there can be read at every moment, also after a compiler *)
(* was killed between any two calls, as long as no two runs overlapped and *)
(* no write was cut short without an error.                                *)
THEOREM PackReplacedAtOnce == Spec => []AtomicReplace
  <1>1. Init => Replacing
    BY DEF Init, Replacing
  <1>2. TypeOK /\ Replacing /\ [Next]_vars => Replacing'
    BY StepReplacing
  <1>3. Replacing => AtomicReplace
    BY DEF Replacing, Undisturbed, AtomicReplace
  <1> QED
    BY <1>1, <1>2, <1>3, PackTyped, PTL DEF Spec

-------------------------------------------------------------------------------
(* What a step may do to the files, used by the two proofs that follow     *)

(* What lies in a file was packed: with the ownership of the name it has    *)
(* no name.                                                                *)
NameHidden(m) == "name" \in m.flags => m.name = None

NamesHidden ==
  \A i \in 1..Len(content) : content[i].meta # None => NameHidden(content[i].meta)

LEMMA PackedHides ==
  ASSUME NEW m \in Metas
  PROVE  NameHidden(Packed(m))
  BY DEF Packed, NameHidden, Metas

LEMMA OpenWrites ==
  ASSUME TypeOK, NEW p \in Procs, Open(p)
  PROVE  /\ tmp' \in 1..Len(content')
         /\ fd'[p] = tmp'
         /\ content'[tmp'] = Unwritten
         /\ Len(content') \in Nat
         /\ \A i \in 1..Len(content') : i # tmp' => i \in 1..Len(content) /\ content'[i] = content[i]
         /\ pack # 0 => content'[pack] = content[pack] /\ pack # tmp'
  <1>1. /\ content \in Seq(Contents) /\ Len(content) \in Nat
        /\ pack \in 0..Len(content) /\ tmp \in 0..Len(content) /\ (pack # 0 => pack # tmp)
    BY DEF TypeOK, Inodes
  <1>2. fd'[p] = tmp'
    BY DEF Open, TypeOK
  <1>3. CASE tmp = 0
    <2>1. content' = Append(content, Unwritten) /\ tmp' = Len(content) + 1
      BY <1>3 DEF Open
    <2>2. Len(content') = Len(content) + 1
      BY <1>1, <2>1, Appended, UnwrittenType
    <2>3. /\ content'[tmp'] = Unwritten
          /\ \A i \in 1..Len(content) : content'[i] = content[i]
      BY <1>1, <2>1, Appended, UnwrittenType
    <2>4. \A i \in 1..Len(content') : i # tmp' => i \in 1..Len(content)
      BY <1>1, <2>1, <2>2
    <2>5. pack # 0 => pack \in 1..Len(content) /\ pack # tmp'
      BY <1>1, <2>1
    <2>6. tmp' \in 1..Len(content') /\ Len(content') \in Nat
      BY <1>1, <2>1, <2>2
    <2> QED
      BY <1>2, <2>3, <2>4, <2>5, <2>6
  <1>4. CASE tmp # 0
    <2>1. content' = [content EXCEPT ![tmp] = Unwritten] /\ tmp' = tmp
      BY <1>4 DEF Open
    <2>2. tmp \in 1..Len(content) /\ (pack # 0 => pack \in 1..Len(content))
      BY <1>1, <1>4
    <2>3. /\ Len(content') = Len(content)
          /\ content'[tmp] = Unwritten
          /\ \A i \in 1..Len(content) : i # tmp => content'[i] = content[i]
      BY <1>1, <2>1, <2>2, Replaced, UnwrittenType
    <2> QED
      BY <1>1, <1>2, <2>1, <2>2, <2>3
  <1> QED
    BY <1>3, <1>4

LEMMA FlushWrites ==
  ASSUME TypeOK, NEW p \in Procs, Flush(p) \/ FlushShort(p)
  PROVE  /\ fd[p] \in 1..Len(content)
         /\ Len(content') = Len(content)
         /\ content'[fd[p]].meta \in {Packed(mine[p]), None}
         /\ Flush(p) /\ content[fd[p]].size = 0 => content'[fd[p]].meta = Packed(mine[p])
         /\ \A i \in 1..Len(content) : i # fd[p] => content'[i] = content[i]
  <1>1. /\ content \in Seq(Contents) /\ fd[p] \in 1..Len(content)
        /\ content[fd[p]] \in Contents /\ mine[p] \in Metas
    BY DEF Flush, FlushShort, At, TypeOK, Inodes
  <1>2. CASE Flush(p)
    <2>1. content' = [content EXCEPT ![fd[p]] = Over(content[fd[p]], Packed(mine[p]))]
      BY <1>2 DEF Flush
    <2>2. /\ Over(content[fd[p]], Packed(mine[p])) \in Contents
          /\ Over(content[fd[p]], Packed(mine[p])).meta \in {Packed(mine[p]), None}
          /\ content[fd[p]].size = 0 =>
               Over(content[fd[p]], Packed(mine[p])).meta = Packed(mine[p])
      BY <1>1, OverType
    <2> QED
      BY <1>1, <2>1, <2>2, Replaced
  <1>3. CASE FlushShort(p)
    <2>1. PICK s \in content[fd[p]].size..2 :
            content' = [content EXCEPT ![fd[p]] = [size |-> s, meta |-> None]]
      BY <1>3 DEF FlushShort
    <2>2. [size |-> s, meta |-> None] \in Contents
      BY <1>1, <2>1 DEF Contents
    <2>3. ~Flush(p)
      <3>1. trouble' # trouble \/ faults' # faults
        BY <1>3 DEF FlushShort, Fails, TypeOK
      <3> QED
        BY <3>1 DEF Flush, Fine
    <2>4. /\ Len(content') = Len(content)
          /\ content'[fd[p]] = [size |-> s, meta |-> None]
          /\ \A i \in 1..Len(content) : i # fd[p] => content'[i] = content[i]
      BY <1>1, <2>1, <2>2, Replaced
    <2> QED
      BY <1>1, <2>3, <2>4
  <1> QED
    BY <1>2, <1>3

(* The steps that write to no file.                                        *)
LEMMA ElseWritesNone ==
  ASSUME [Next]_vars, \A p \in Procs : ~Open(p) /\ ~Flush(p) /\ ~FlushShort(p)
  PROVE  content' = content
  BY DEF Next, Sync, vars, files, EditConfig, Begin, Read, Delete, OpenFails, Rename,
         RenameFails, Remove, End, Crash

LEMMA StepHidden ==
  ASSUME TypeOK, NamesHidden, [Next]_vars
  PROVE  NamesHidden'
  <1>1. ASSUME NEW p \in Procs, Open(p)
        PROVE  NamesHidden'
    <2>1. content'[tmp'].meta = None
      BY <1>1, OpenWrites DEF Unwritten
    <2> QED
      BY <1>1, <2>1, OpenWrites DEF NamesHidden
  <1>2. ASSUME NEW p \in Procs, Flush(p) \/ FlushShort(p)
        PROVE  NamesHidden'
    <2>1. NameHidden(Packed(mine[p]))
      BY PackedHides DEF TypeOK
    <2> QED
      BY <1>2, <2>1, FlushWrites DEF NamesHidden
  <1>3. CASE \A p \in Procs : ~Open(p) /\ ~Flush(p) /\ ~FlushShort(p)
    BY <1>3, ElseWritesNone DEF NamesHidden
  <1> QED
    BY <1>1, <1>2, <1>3

-------------------------------------------------------------------------------
(* What an undisturbed run leaves                                          *)

(* p runs alone: what it writes is still there when it renames it.         *)
OnItsWay(p) ==
  /\ \A q \in Procs : q # p => pc[q] = "idle"
  /\ pc[p] # "remove"
  /\ pc[p] = "flush" => fd[p] = tmp /\ content[tmp].size = 0
  /\ pc[p] = "rename" => tmp # 0 /\ content[tmp].meta = Packed(mine[p])
  /\ pc[p] = "done" => Stored = Packed(mine[p])

CalmRuns == \A p \in Procs : calm[p] /\ pc[p] # "idle" => OnItsWay(p)

(* A pack with the name, the hash and the flags that are wanted is what    *)
(* would be written.                                                       *)
LEMMA NothingToDo ==
  ASSUME NEW old \in Metas, NameHidden(old), NEW m \in Metas,
         old.name = m.name, ~Dirty(old, m)
  PROVE  old = Packed(m)
  <1>1. old.hash = m.hash /\ old.flags = m.flags
    BY DEF Dirty
  <1>2. CASE "name" \in m.flags
    <2>1. old.name = None
      BY <1>1, <1>2 DEF NameHidden
    <2> QED
      BY <1>1, <1>2, <2>1 DEF Packed, Metas
  <1>3. CASE "name" \notin m.flags
    BY <1>1, <1>3 DEF Packed, Metas
  <1> QED
    BY <1>2, <1>3

(* A run that is over or failed is not calm; the others are idle.          *)
LEMMA CalmOnly ==
  ASSUME TypeOK, CalmRuns, NEW p \in Procs, pc[p] # "idle",
         NEW step \in Steps, Goto(p, step),
         Fine \/ (\E kind \in Troubles : Fails(p, kind)),
         Fine /\ step # "idle" /\ calm[p] /\ OnItsWay(p) => OnItsWay(p)'
  PROVE  CalmRuns'
  <1>1. pc'[p] = step /\ \A q \in Procs : q # p => pc'[q] = pc[q]
    BY DEF Goto, TypeOK
  <1>2. \A q \in Procs : q # p => calm'[q] = calm[q]
    BY DEF Fine, Fails, TypeOK
  <1>3. ASSUME NEW q \in Procs, q # p, calm'[q], pc'[q] # "idle"
        PROVE  FALSE
    BY <1>1, <1>2, <1>3 DEF CalmRuns, OnItsWay
  <1>4. ASSUME calm'[p], pc'[p] # "idle"
        PROVE  OnItsWay(p)'
    <2>1. Fine
      BY <1>4, Zenon DEF Fails, TypeOK
    <2>2. calm[p]
      BY <1>4, <2>1 DEF Fine
    <2> QED
      BY <1>1, <1>4, <2>1, <2>2 DEF CalmRuns
  <1> QED
    BY <1>3, <1>4 DEF CalmRuns

LEMMA StepCalm ==
  ASSUME TypeOK, NamesHidden, CalmRuns, [Next]_vars
  PROVE  CalmRuns'
  <1>1. CASE UNCHANGED vars
    BY <1>1 DEF vars, files, ghosts, CalmRuns, OnItsWay, Stored
  <1>2. CASE EditConfig
    BY <1>2 DEF EditConfig, files, ghosts, CalmRuns, OnItsWay, Stored
  <1>3. ASSUME NEW p \in Procs, NEW h \in Hashes, Begin(p, h)
        PROVE  CalmRuns'
    <2>1. calm' = [q \in Procs |-> q = p /\ AllIdle] /\ pc' = [pc EXCEPT ![p] = "read"]
      BY <1>3 DEF Begin, Goto
    <2>2. ASSUME NEW q \in Procs, calm'[q]
          PROVE  OnItsWay(q)'
      <3>1. q = p /\ AllIdle
        BY <2>1, <2>2
      <3>2. pc'[p] = "read" /\ \A r \in Procs : r # p => pc'[r] = "idle"
        BY <2>1, <3>1 DEF AllIdle, TypeOK
      <3> QED
        BY <3>1, <3>2 DEF OnItsWay
    <2> QED
      BY <2>2 DEF CalmRuns
  <1>4. ASSUME NEW p \in Procs, Sync(p) \/ Crash(p)
        PROVE  CalmRuns'
    <2>1. pc[p] # "idle"
      BY <1>4 DEF Sync, Read, Delete, Open, OpenFails, Flush, FlushShort, Rename,
                  RenameFails, Remove, End, Crash, At
    <2>2. \E step \in Steps : Goto(p, step)
      BY <1>4 DEF Sync, Read, Delete, Open, OpenFails, Flush, FlushShort, Rename,
                  RenameFails, Remove, End, Crash, Steps
    <2>3. Fine \/ \E kind \in Troubles : Fails(p, kind)
      BY <1>4 DEF Sync, Read, Delete, Open, OpenFails, Flush, FlushShort, Rename,
                  RenameFails, Remove, End, Crash, Troubles
    <2>4. \A q \in Procs : q # p => pc'[q] = pc[q]
      BY <2>2 DEF Goto, TypeOK
    <2>5. SUFFICES ASSUME Fine, pc'[p] # "idle", calm[p], OnItsWay(p)
                   PROVE  OnItsWay(p)'
      <3>1. \A step \in Steps : Goto(p, step) => pc'[p] = step
        BY DEF Goto, TypeOK
      <3> QED
        BY <2>1, <2>2, <2>3, <2>5, <3>1, CalmOnly
    <2>6. \A q \in Procs : q # p => pc'[q] = "idle"
      BY <2>4, <2>5 DEF OnItsWay
    <2>7. ~OpenFails(p) /\ ~FlushShort(p) /\ ~Crash(p) /\ ~End(p)
      <3>1. \A kind : ~Fails(p, kind)
        BY <2>5 DEF Fine, Fails, TypeOK
      <3> QED
        BY <2>5, <3>1 DEF OpenFails, FlushShort, Crash, End, Goto, TypeOK
    <2>8. CASE Read(p)
      <3>1. content' = content /\ pack' = pack /\ mine' = mine
        BY <2>8 DEF Read, files, Running
      <3>2. pc'[p] \in {"open", "delete", "done"}
        BY <2>8 DEF Read, Goto, TypeOK
      <3>3. ASSUME pc'[p] = "done"
            PROVE  Stored = Packed(mine[p])
        <4>1. Stored # None /\ Stored.name = mine[p].name /\ ~Dirty(Stored, mine[p])
          BY <2>8, <3>3 DEF Read, Goto, TypeOK
        <4>2. pack \in 1..Len(content) /\ Stored = content[pack].meta
          BY <4>1 DEF Stored, TypeOK, Inodes
        <4>3. content[pack] \in Contents
          BY <4>2 DEF TypeOK
        <4>4. Stored \in Metas /\ NameHidden(Stored) /\ mine[p] \in Metas
          BY <4>1, <4>2, <4>3 DEF Contents, NamesHidden, TypeOK
        <4> QED
          BY <4>1, <4>4, NothingToDo
      <3> QED
        BY <2>6, <3>1, <3>2, <3>3 DEF OnItsWay, Stored
    <2>9. CASE Delete(p)
      <3>1. pc'[p] = "open"
        BY <2>9 DEF Delete, Goto, TypeOK
      <3> QED
        BY <2>6, <3>1 DEF OnItsWay
    <2>10. CASE Open(p)
      <3>1. pc'[p] = "flush"
        BY <2>10 DEF Open, Goto, TypeOK
      <3>2. fd'[p] = tmp' /\ content'[tmp'].size = 0
        BY <2>10, OpenWrites DEF Unwritten
      <3> QED
        BY <2>6, <3>1, <3>2 DEF OnItsWay
    <2>11. CASE Flush(p)
      <3>1. pc[p] = "flush" /\ pc'[p] = "rename" /\ tmp' = tmp /\ mine' = mine
        BY <2>11 DEF Flush, At, Goto, Running, TypeOK
      <3>2. fd[p] = tmp /\ content[tmp].size = 0 /\ tmp # 0
        BY <2>5, <3>1 DEF OnItsWay, TypeOK
      <3>3. content'[tmp].meta = Packed(mine[p])
        BY <2>11, <3>2, FlushWrites
      <3> QED
        BY <2>6, <3>1, <3>2, <3>3 DEF OnItsWay
    <2>12. CASE Rename(p)
      <3>1. /\ pc[p] = "rename" /\ pc'[p] = "done" /\ pack' = tmp /\ tmp # 0
            /\ content' = content /\ mine' = mine
        BY <2>12 DEF Rename, At, Goto, Running, TypeOK
      <3>2. content[tmp].meta = Packed(mine[p])
        BY <2>5, <3>1 DEF OnItsWay
      <3> QED
        BY <2>6, <3>1, <3>2 DEF OnItsWay, Stored
    <2>13. ~RenameFails(p) /\ ~Remove(p)
      <3>1. \A kind : ~Fails(p, kind)
        BY <2>5 DEF Fine, Fails, TypeOK
      <3> QED
        BY <2>5, <3>1 DEF RenameFails, Remove, At, OnItsWay
    <2> QED
      BY <1>4, <2>7, <2>8, <2>9, <2>10, <2>11, <2>12, <2>13 DEF Sync
  <1> QED
    BY <1>1, <1>2, <1>3, <1>4 DEF Next

(* A compiler that ran alone and met no failure leaves a pack that says    *)
(* what it compiled and what its config owns, whatever state earlier runs, *)
(* crashes and overlaps left the directory in.                             *)
THEOREM SyncedPack == Spec => []SyncIsCurrent
  <1>1. Init => NamesHidden /\ CalmRuns
    <2> SUFFICES ASSUME Init PROVE NamesHidden /\ CalmRuns
      OBVIOUS
    <2>1. Len(content) = 0
      BY DEF Init
    <2>2. \A p \in Procs : pc[p] = "idle"
      BY DEF Init
    <2> QED
      BY <2>1, <2>2 DEF NamesHidden, CalmRuns
  <1>2. TypeOK /\ NamesHidden /\ [Next]_vars => NamesHidden'
    BY StepHidden
  <1>3. TypeOK /\ NamesHidden /\ CalmRuns /\ [Next]_vars => CalmRuns'
    BY StepCalm
  <1>4. CalmRuns => SyncIsCurrent
    BY DEF CalmRuns, OnItsWay, SyncIsCurrent, At
  <1> QED
    BY <1>1, <1>2, <1>3, <1>4, PackTyped, PTL DEF Spec

-------------------------------------------------------------------------------
(* The pack is a register                                                  *)

(* What can still reach the pack is in begun.                              *)
Announced ==
  /\ \A p \in Procs : pc[p] # "idle" => Packed(mine[p]) \in begun
  /\ \A p \in Procs : pc[p] \in {"flush", "rename"} /\ tmp # 0
                        => content[tmp].meta \in begun \cup {None}

LEMMA StepAnnounced ==
  ASSUME TypeOK, Announced, [Next]_vars
  PROVE  Announced'
  <1>1. CASE UNCHANGED vars
    BY <1>1 DEF vars, files, ghosts, Announced
  <1>2. CASE EditConfig
    BY <1>2 DEF EditConfig, files, ghosts, Announced
  <1>3. ASSUME NEW p \in Procs, NEW h \in Hashes, Begin(p, h)
        PROVE  Announced'
    <2>1. /\ mine' = [mine EXCEPT ![p] = Wanted(h, config)]
          /\ begun' = begun \cup {Packed(Wanted(h, config))}
          /\ pc' = [pc EXCEPT ![p] = "read"]
          /\ UNCHANGED <<content, tmp>>
      BY <1>3 DEF Begin, Goto, files
    <2>2. mine'[p] = Wanted(h, config) /\ pc'[p] = "read"
      BY <2>1 DEF TypeOK
    <2>3. \A q \in Procs : q # p => mine'[q] = mine[q] /\ pc'[q] = pc[q]
      BY <2>1 DEF TypeOK
    <2>4. ASSUME NEW q \in Procs, pc'[q] # "idle"
          PROVE  Packed(mine'[q]) \in begun'
      BY <2>1, <2>2, <2>3, <2>4 DEF Announced
    <2>5. ASSUME NEW q \in Procs, pc'[q] \in {"flush", "rename"}, tmp' # 0
          PROVE  content'[tmp'].meta \in begun' \cup {None}
      BY <2>1, <2>2, <2>3, <2>5 DEF Announced
    <2> QED
      BY <2>4, <2>5 DEF Announced, Packed
  <1>4. ASSUME NEW p \in Procs, End(p) \/ Crash(p)
        PROVE  Announced'
    <2>1. Goto(p, "idle") /\ Quiesce /\ UNCHANGED <<content, tmp, mine>>
      BY <1>4 DEF End, Crash, files
    <2>2. \A q \in Procs : pc'[q] # "idle" => pc'[q] = pc[q]
      BY <2>1 DEF Goto, TypeOK
    <2>3. ASSUME NEW q \in Procs, pc'[q] # "idle"
          PROVE  begun' = begun
      BY <2>1, <2>3 DEF Quiesce
    <2>4. ASSUME NEW q \in Procs, pc'[q] # "idle"
          PROVE  Packed(mine'[q]) \in begun'
      <3>1. Packed(mine[q]) \in begun
        BY <2>2, <2>4 DEF Announced
      <3>2. mine'[q] = mine[q] /\ begun' = begun
        BY <2>1, <2>3, <2>4
      <3> QED
        BY <3>1, <3>2
    <2>5. ASSUME NEW q \in Procs, pc'[q] \in {"flush", "rename"}, tmp' # 0
          PROVE  content'[tmp'].meta \in begun' \cup {None}
      <3>1. pc'[q] # "idle" /\ pc[q] \in {"flush", "rename"}
        BY <2>2, <2>5
      <3>2. begun' = begun /\ content' = content /\ tmp' = tmp
        BY <2>1, <2>3, <3>1
      <3>3. content[tmp].meta \in begun \cup {None}
        BY <2>5, <3>1, <3>2 DEF Announced
      <3> QED
        BY <3>2, <3>3
    <2> QED
      BY <2>4, <2>5 DEF Announced
  <1>5. ASSUME NEW p \in Procs, Sync(p), ~End(p)
        PROVE  Announced'
    <2>1. mine' = mine /\ begun' = begun
      BY <1>5 DEF Sync, Read, Delete, Open, OpenFails, Flush, FlushShort, Rename,
                  RenameFails, Remove, Running
    <2>2. pc[p] # "idle"
      BY <1>5 DEF Sync, Read, Delete, Open, OpenFails, Flush, FlushShort, Rename,
                  RenameFails, Remove, At
    <2>3. \A q \in Procs : pc'[q] # "idle" => pc[q] # "idle"
      <3>1. \E step \in Steps : Goto(p, step)
        BY <1>5 DEF Sync, Read, Delete, Open, OpenFails, Flush, FlushShort, Rename,
                    RenameFails, Remove, Steps
      <3> QED
        BY <2>2, <3>1 DEF Goto, TypeOK
    <2>4. Packed(mine[p]) \in begun
      BY <2>2 DEF Announced
    <2>5. ASSUME tmp' # 0, NEW q \in Procs, pc'[q] \in {"flush", "rename"}
          PROVE  content'[tmp'].meta \in begun \cup {None}
      <3>1. CASE Open(p)
        BY <3>1, OpenWrites DEF Unwritten
      <3>2. CASE Flush(p) \/ FlushShort(p)
        <4>1. pc[p] = "flush" /\ tmp' = tmp
          BY <3>2 DEF Flush, FlushShort, At
        <4>2. content[tmp].meta \in begun \cup {None}
          BY <2>5, <4>1 DEF Announced
        <4>3. tmp \in 1..Len(content)
          BY <2>5, <4>1 DEF TypeOK, Inodes
        <4>4. CASE tmp = fd[p]
          BY <2>4, <3>2, <4>1, <4>4, FlushWrites
        <4>5. CASE tmp # fd[p]
          BY <3>2, <4>1, <4>2, <4>3, <4>5, FlushWrites
        <4> QED
          BY <4>4, <4>5
      <3>3. CASE Read(p) \/ Delete(p) \/ OpenFails(p) \/ RenameFails(p) \/ Remove(p)
        <4>1. content' = content /\ tmp' = tmp
          BY <2>5, <3>3 DEF Read, Delete, OpenFails, RenameFails, Remove, files
        <4>2. pc'[p] \notin {"flush", "rename"}
          BY <3>3 DEF Read, Delete, OpenFails, RenameFails, Remove, Goto, TypeOK
        <4>3. pc'[q] = pc[q]
          BY <2>5, <3>3, <4>2 DEF Read, Delete, OpenFails, RenameFails, Remove, Goto, TypeOK
        <4> QED
          BY <2>5, <4>1, <4>3 DEF Announced
      <3>4. CASE Rename(p)
        BY <2>5, <3>4 DEF Rename
      <3> QED
        BY <1>5, <3>1, <3>2, <3>3, <3>4 DEF Sync
    <2>6. \A q \in Procs : pc'[q] # "idle" => Packed(mine'[q]) \in begun'
      BY <2>1, <2>3 DEF Announced
    <2> QED
      BY <2>1, <2>5, <2>6 DEF Announced
  <1> QED
    BY <1>1, <1>2, <1>3, <1>4, <1>5 DEF Next, Sync

AtWork == {p \in Procs : pc[p] # "idle"}

(* A step of somebody at work that changes neither who is nor what was     *)
(* announced is a write to the register, or nothing.                       *)
LEMMA WritesRegister ==
  ASSUME TypeOK, NEW p \in Procs, pc[p] # "idle", AtWork' = AtWork, begun' = begun,
         Stored' \in begun \cup {None}
  PROVE  Register!Next
  <1>1. Stored' \in Metas \cup {None}
    BY DEF TypeOK
  <1>2. Register!Write(Stored')
    BY DEF AtWork, Register!Write
  <1> QED
    BY <1>1, <1>2 DEF Register!Next

LEMMA StepOfRegister ==
  ASSUME TypeOK, Announced, [Next]_vars
  PROVE  [Register!Next]_(Register!vars)
  <1> USE DEF Register!vars
  <1>1. CASE UNCHANGED vars
    BY <1>1 DEF vars, files, ghosts, Stored
  <1>2. CASE EditConfig
    BY <1>2 DEF EditConfig, files, ghosts, Stored
  <1>3. ASSUME NEW p \in Procs, NEW h \in Hashes, Begin(p, h)
        PROVE  Register!Next
    <2>1. PICK m \in Metas : m = Packed(Wanted(h, config))
      BY WantedType, PackedType DEF TypeOK
    <2>2. p \notin AtWork /\ AtWork' = AtWork \cup {p}
      BY <1>3 DEF Begin, At, Goto, AtWork, TypeOK
    <2>3. begun' = begun \cup {m} /\ Stored' = Stored
      BY <1>3, <2>1 DEF Begin, files, Stored
    <2>4. Register!Begin(p, m)
      BY <2>2, <2>3 DEF AtWork, Register!Begin
    <2> QED
      BY <2>4 DEF Register!Next
  <1>4. ASSUME NEW p \in Procs, End(p) \/ Crash(p)
        PROVE  Register!Next
    <2>1. p \in AtWork /\ AtWork' = AtWork \ {p}
      BY <1>4 DEF End, Crash, At, Goto, AtWork, TypeOK
    <2>2. begun' = IF AtWork' = {} THEN {} ELSE begun
      BY <1>4 DEF End, Crash, Quiesce, AtWork
    <2>3. Stored' = Stored
      BY <1>4 DEF End, Crash, files, Stored
    <2>4. Register!End(p)
      BY <2>1, <2>2, <2>3 DEF AtWork, Register!End
    <2> QED
      BY <2>4 DEF Register!Next
  <1>5. ASSUME NEW p \in Procs, Sync(p), ~End(p)
        PROVE  [Register!Next]_(Register!vars)
    <2>1. pc[p] # "idle" /\ begun' = begun
      BY <1>5 DEF Sync, Read, Delete, Open, OpenFails, Flush, FlushShort, Rename,
                  RenameFails, Remove, Running, At
    <2>2. AtWork' = AtWork
      <3>1. \E step \in Steps \ {"idle"} : Goto(p, step)
        BY <1>5 DEF Sync, Read, Delete, Open, OpenFails, Flush, FlushShort, Rename,
                    RenameFails, Remove, Steps
      <3> QED
        BY <2>1, <3>1 DEF Goto, AtWork, TypeOK
    <2>3. CASE Stored' = Stored
      BY <2>1, <2>2, <2>3 DEF AtWork
    <2>4. CASE Stored' \in begun \cup {None}
      BY <2>1, <2>2, <2>4, WritesRegister
    <2>5. Stored' = Stored \/ Stored' \in begun \cup {None}
      <3>1. CASE Open(p)
        <4>1. pack' = pack /\ (pack # 0 => content'[pack] = content[pack])
          BY <3>1, OpenWrites DEF Open
        <4> QED
          BY <4>1 DEF Stored
      <3>2. CASE Flush(p) \/ FlushShort(p)
        <4>1. pack' = pack /\ pc[p] = "flush"
          BY <3>2 DEF Flush, FlushShort, At
        <4>2. Packed(mine[p]) \in begun
          BY <2>1 DEF Announced
        <4>3. CASE pack = 0
          BY <4>1, <4>3 DEF Stored
        <4>4. CASE pack # 0 /\ pack = fd[p]
          BY <3>2, <4>1, <4>2, <4>4, FlushWrites DEF Stored
        <4>5. CASE pack # 0 /\ pack # fd[p]
          <5>1. pack \in 1..Len(content)
            BY <4>5 DEF TypeOK, Inodes
          <5> QED
            BY <3>2, <4>1, <4>5, <5>1, FlushWrites DEF Stored
        <4> QED
          BY <4>3, <4>4, <4>5
      <3>3. CASE Delete(p)
        BY <3>3 DEF Delete, Stored
      <3>4. CASE Read(p) \/ OpenFails(p) \/ RenameFails(p) \/ Remove(p)
        BY <3>4 DEF Read, OpenFails, RenameFails, Remove, files, Stored
      <3>5. CASE Rename(p)
        <4>1. pc[p] = "rename" /\ tmp # 0 /\ pack' = tmp /\ content' = content
          BY <3>5 DEF Rename, At
        <4> QED
          BY <4>1 DEF Announced, Stored
      <3> QED
        BY <1>5, <3>1, <3>2, <3>3, <3>4, <3>5 DEF Sync
    <2> QED
      BY <2>3, <2>4, <2>5
  <1> QED
    BY <1>1, <1>2, <1>3, <1>4, <1>5 DEF Next, Sync

(* The compilers, their shared temporary file, their failing calls and     *)
(* their crashes implement one register that holds what some run of the    *)
(* busy period wanted to store, or nothing readable.                       *)
THEOREM PackImplementsRegister == Spec => PackIsRegister
  <1>1. Init => Announced /\ Register!Init
    <2> SUFFICES ASSUME Init PROVE Announced /\ Register!Init
      OBVIOUS
    <2>1. \A p \in Procs : pc[p] = "idle"
      BY DEF Init
    <2> QED
      BY <2>1 DEF Init, Announced, Register!Init, Stored
  <1>2. TypeOK /\ Announced /\ [Next]_vars => Announced'
    BY StepAnnounced
  <1>3. TypeOK /\ Announced /\ [Next]_vars => [Register!Next]_(Register!vars)
    BY StepOfRegister
  <1> QED
    BY <1>1, <1>2, <1>3, PackTyped, PTL DEF Spec, PackIsRegister, Register!Spec
===============================================================================
