----------------------------- MODULE ProjectPack -----------------------------
(***************************************************************************)
(* The project pack: project_pack_sync of src/src/footprint/pack.c, as     *)
(* main calls it at the start of every run, on dir_write_file of           *)
(* src/include/third-party/dir/dir.h.                                      *)
(*                                                                         *)
(* Compilers started in one directory share .project.pack and also the     *)
(* name of its temporary file.  A file is an inode: content[i] is what was *)
(* written to inode i, pack and tmp say which inode has which name (0:     *)
(* none), and a compiler keeps the inode it opened, whatever its name has  *)
(* become since.  Any call into the file system may fail, and a compiler   *)
(* may be killed between two of them.                                      *)
(*                                                                         *)
(* The root is left out: it is "." in every pack main writes, and exists.  *)
(* The footprint link is never stored: config_pack_own_flags makes the     *)
(* config own it whenever there is one.                                    *)
(***************************************************************************)
EXTENDS Naturals, Sequences

CONSTANTS
  Procs,      \* the compilers
  Hashes,     \* hashes of the source files they compile
  Names,      \* names a config.toml gives the project
  Configs,    \* the config.toml files that occur
  None,       \* no name, no pack
  MaxRuns,    \* bound: runs of all compilers
  MaxEdits,   \* bound: edits of config.toml
  MaxFaults   \* bound: failed calls and crashes

Owners == {"name", "footprint"}
Metas == [hash : Hashes, flags : SUBSET Owners, name : Names \cup {None}]
ConfigType == [name : Names \cup {None}, link : BOOLEAN]

ASSUME PackAssumption ==
  /\ None \notin Names
  /\ None \notin Metas
  /\ Configs \subseteq ConfigType
  /\ Configs # {}
  /\ MaxRuns \in Nat
  /\ MaxEdits \in Nat
  /\ MaxFaults \in Nat

VARIABLES
  config,   \* config.toml; without one, an empty one
  content,  \* inode -> how long it is and what can be read from it
  pack,     \* .project.pack
  tmp,      \* .project.pack.tmp
  pc,       \* what each compiler does next
  mine,     \* the ProjectPack it wants stored
  fd,       \* the inode it has open
  runs, edits, faults,
  begun,    \* ghost: what was to be stored since all compilers were idle
  calm,     \* ghost: nothing failed in this run, and it ran alone
  trouble   \* ghost: what has gone wrong so far

files == <<content, pack, tmp>>
ghosts == <<begun, calm, trouble>>
vars == <<config, files, pc, mine, fd, runs, edits, faults, ghosts>>

-------------------------------------------------------------------------------
(* config_pack_own_flags                                                   *)
OwnFlags(c) ==
  {o \in Owners : \/ o = "name" /\ c.name # None
                  \/ o = "footprint" /\ c.link}

Wanted(h, c) == [hash |-> h, flags |-> OwnFlags(c), name |-> c.name]

(* What project_pack_write stores: not the name if the config owns it.     *)
Packed(m) == IF "name" \in m.flags THEN [m EXCEPT !.name = None] ELSE m

(* A field with its default value takes no room in the buffer.             *)
Size(m) == IF m.flags = {} THEN 1 ELSE 2

Unwritten == [size |-> 0, meta |-> None]

(* m written to a file from its start: bytes beyond m stay, and then the   *)
(* checksum is not at the end.                                             *)
Over(c, m) ==
  IF c.size <= Size(m) THEN [size |-> Size(m), meta |-> m]
  ELSE [size |-> c.size, meta |-> None]

(* project_pack_read: the checksum and the verifier refuse all the rest.   *)
Stored == IF pack = 0 THEN None ELSE content[pack].meta

(* Mutant: the ownership of the fields is not compared.                    *)
DirtyHash(old, m) == old.hash # m.hash

Dirty(old, m) == old.hash # m.hash \/ old.flags # m.flags

-------------------------------------------------------------------------------
AllIdle == \A p \in Procs : pc[p] = "idle"

At(p, step) == pc[p] = step
Goto(p, step) == pc' = [pc EXCEPT ![p] = step]

Fine == UNCHANGED <<faults, calm, trouble>>
Fails(p, kind) ==
  /\ faults < MaxFaults
  /\ faults' = faults + 1
  /\ calm' = [calm EXCEPT ![p] = FALSE]
  /\ trouble' = trouble \cup {kind}

Running == UNCHANGED <<config, mine, runs, edits, begun>>

(* main has read the source and config.toml, and calls project_pack_sync.  *)
Begin(p, h) ==
  /\ At(p, "idle")
  /\ runs < MaxRuns
  /\ runs' = runs + 1
  /\ mine' = [mine EXCEPT ![p] = Wanted(h, config)]
  /\ begun' = begun \cup {Packed(Wanted(h, config))}
  /\ calm' = [q \in Procs |-> q = p /\ AllIdle]
  /\ trouble' = IF AllIdle THEN trouble ELSE trouble \cup {"overlap"}
  /\ Goto(p, "read")
  /\ UNCHANGED <<config, files, fd, edits, faults>>

(* dir_exists, project_pack_read and what is decided from them.            *)
Read(p) ==
  /\ At(p, "read")
  /\ Goto(p, IF Stored = None THEN "open"
             ELSE IF Stored.name # mine[p].name THEN "delete"
             ELSE IF Dirty(Stored, mine[p]) THEN "open"
             ELSE "done")
  /\ Fine /\ Running /\ UNCHANGED <<files, fd>>

(* Nobody looks at what dir_delete returns.                                *)
Delete(p) ==
  /\ At(p, "delete")
  /\ \/ pack' = 0 /\ Fine
     \/ pack' = pack /\ Fails(p, "delete")
  /\ Goto(p, "open")
  /\ Running /\ UNCHANGED <<content, tmp, fd>>

(* Mutant: a pack that is there is written in place.                       *)
OpenInPlace(p) ==
  /\ At(p, "open")
  /\ LET i == IF pack # 0 THEN pack ELSE tmp IN
       /\ IF i = 0
          THEN /\ content' = Append(content, Unwritten)
               /\ tmp' = Len(content) + 1
          ELSE content' = [content EXCEPT ![i] = Unwritten] /\ tmp' = tmp
       /\ fd' = [fd EXCEPT ![p] = IF i = 0 THEN tmp' ELSE i]
  /\ Goto(p, "flush")
  /\ Fine /\ Running /\ UNCHANGED pack

(* fopen(tmp, "wb") truncates a file that is there.                        *)
Open(p) ==
  /\ At(p, "open")
  /\ IF tmp = 0
     THEN /\ content' = Append(content, Unwritten)
          /\ tmp' = Len(content) + 1
     ELSE /\ content' = [content EXCEPT ![tmp] = Unwritten]
          /\ tmp' = tmp
  /\ fd' = [fd EXCEPT ![p] = tmp']
  /\ Goto(p, "flush")
  /\ Fine /\ Running /\ UNCHANGED pack

(* Mutant: an fopen that fails is not noticed.                             *)
OpenFailsUnseen(p) ==
  /\ At(p, "open")
  /\ Fails(p, "open")
  /\ Goto(p, "rename")
  /\ Running /\ UNCHANGED <<files, fd>>

OpenFails(p) ==
  /\ At(p, "open")
  /\ Fails(p, "open")
  /\ Goto(p, "done")
  /\ Running /\ UNCHANGED <<files, fd>>

(* fwrite and fclose: one write to the inode that was opened.              *)
Flush(p) ==
  /\ At(p, "flush")
  /\ content' = [content EXCEPT ![fd[p]] = Over(@, Packed(mine[p]))]
  /\ Goto(p, "rename")
  /\ Fine /\ Running /\ UNCHANGED <<pack, tmp, fd>>

(* The disk is full.  fwrite says so if the data exceeds the buffer of the *)
(* stream; else fclose does, and nobody looks at what fclose returns.      *)
FlushShort(p) ==
  /\ At(p, "flush")
  /\ \E s \in content[fd[p]].size..2 :
       content' = [content EXCEPT ![fd[p]] = [size |-> s, meta |-> None]]
  /\ \/ Goto(p, "remove") /\ Fails(p, "write")
     \/ Goto(p, "rename") /\ Fails(p, "short")
  /\ Running /\ UNCHANGED <<pack, tmp, fd>>

(* Mutant: the temporary name stays.                                       *)
RenameLinks(p) ==
  /\ At(p, "rename")
  /\ tmp # 0
  /\ pack' = tmp
  /\ tmp' = tmp
  /\ Goto(p, "done")
  /\ Fine /\ Running /\ UNCHANGED <<content, fd>>

Rename(p) ==
  /\ At(p, "rename")
  /\ tmp # 0
  /\ pack' = tmp
  /\ tmp' = 0
  /\ Goto(p, "done")
  /\ Fine /\ Running /\ UNCHANGED <<content, fd>>

(* Mutant: the temporary file is left where it is.                         *)
RenameFailsLeaves(p) ==
  /\ At(p, "rename")
  /\ \/ tmp = 0 /\ Fine
     \/ tmp # 0 /\ Fails(p, "rename")
  /\ Goto(p, "done")
  /\ Running /\ UNCHANGED <<files, fd>>

(* Another compiler may have renamed or removed the file.                  *)
RenameFails(p) ==
  /\ At(p, "rename")
  /\ \/ tmp = 0 /\ Fine
     \/ tmp # 0 /\ Fails(p, "rename")
  /\ Goto(p, "remove")
  /\ Running /\ UNCHANGED <<files, fd>>

(* Whoever's file has the name by now.                                     *)
Remove(p) ==
  /\ At(p, "remove")
  /\ \/ tmp' = 0 /\ Fine
     \/ tmp' = tmp /\ Fails(p, "remove")
  /\ Goto(p, "done")
  /\ Running /\ UNCHANGED <<content, pack, fd>>

Quiesce == begun' = IF \A p \in Procs : pc'[p] = "idle" THEN {} ELSE begun

(* project_pack_sync returns; the rest of main does not touch the pack.    *)
End(p) ==
  /\ At(p, "done")
  /\ Goto(p, "idle")
  /\ Quiesce
  /\ Fine /\ UNCHANGED <<config, files, mine, fd, runs, edits>>

Crash(p) ==
  /\ ~At(p, "idle")
  /\ Goto(p, "idle")
  /\ Quiesce
  /\ Fails(p, "crash")
  /\ UNCHANGED <<config, files, mine, fd, runs, edits>>

EditConfig ==
  /\ edits < MaxEdits
  /\ edits' = edits + 1
  /\ config' \in Configs \ {config}
  /\ UNCHANGED <<files, pc, mine, fd, runs, faults, ghosts>>

Init ==
  /\ config \in Configs
  /\ content = << >>
  /\ pack = 0
  /\ tmp = 0
  /\ pc = [p \in Procs |-> "idle"]
  /\ mine \in [Procs -> {Wanted(h, config) : h \in Hashes}]
  /\ fd = [p \in Procs |-> 0]
  /\ runs = 0
  /\ edits = 0
  /\ faults = 0
  /\ begun = {}
  /\ calm = [p \in Procs |-> FALSE]
  /\ trouble = {}

Sync(p) ==
  \/ Read(p) \/ Delete(p) \/ Open(p) \/ OpenFails(p) \/ Flush(p) \/ FlushShort(p)
  \/ Rename(p) \/ RenameFails(p) \/ Remove(p) \/ End(p)

Next ==
  \/ \E p \in Procs : Sync(p) \/ Crash(p) \/ \E h \in Hashes : Begin(p, h)
  \/ EditConfig

Spec == Init /\ [][Next]_vars
-------------------------------------------------------------------------------
(* Properties                                                              *)

Contents == [size : 0..2, meta : Metas \cup {None}]
Inodes == 0..Len(content)
Steps == {"idle", "read", "delete", "open", "flush", "rename", "remove", "done"}
Troubles == {"overlap", "delete", "open", "write", "short", "rename", "remove", "crash"}

(* A compiler writes only to an inode that exists, and no inode has two    *)
(* names: what is truncated is never the pack that others read.            *)
TypeOK ==
  /\ config \in ConfigType
  /\ content \in Seq(Contents)
  /\ pack \in Inodes
  /\ tmp \in Inodes
  /\ pack # 0 => pack # tmp
  /\ pc \in [Procs -> Steps]
  /\ mine \in [Procs -> Metas]
  /\ fd \in [Procs -> Inodes]
  /\ \A p \in Procs : pc[p] = "flush" => fd[p] # 0
  /\ runs \in Nat
  /\ edits \in Nat
  /\ faults \in Nat
  /\ begun \subseteq Metas
  /\ calm \in [Procs -> BOOLEAN]
  /\ trouble \subseteq Troubles

(* Write to a temporary file, then rename: as long as no two runs overlap  *)
(* and every short write is noticed, the pack is at no moment unreadable,  *)
(* whenever a run is killed and whatever else fails in it.                 *)
AtomicReplace ==
  trouble \cap {"overlap", "short"} = {} /\ pack # 0 => content[pack].meta # None

(* A run that nothing disturbs leaves a pack that says what it compiled    *)
(* and what its config owns, whatever the runs before it left: no pack, a   *)
(* half-written one, one with another name or a temporary file.            *)
SyncIsCurrent ==
  \A p \in Procs : At(p, "done") /\ calm[p] => Stored = Packed(mine[p])

(* The temporary file is somebody's, who will rename or remove it: only a  *)
(* crash, or a removal that fails, leaves it behind, however the runs that  *)
(* share its name interleave.                                              *)
TmpOwned ==
  tmp # 0 => \/ \E p \in Procs : pc[p] \in {"flush", "rename", "remove"}
             \/ trouble \cap {"crash", "remove"} # {}

(* The compilers together implement the register: whatever interleaves,    *)
(* fails or crashes, a reader of the pack gets what some run of the same    *)
(* busy period wanted to store, or nothing.                                *)
Register == INSTANCE PackRegister WITH
  stored <- Stored, active <- {p \in Procs : pc[p] # "idle"}, pending <- begun

PackIsRegister == Register!Spec
===============================================================================
