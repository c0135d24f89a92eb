--------------------------------- MODULE FileDb ---------------------------------
(*******************************************************************************)
(* The persistent database (src/src/filedb.c): the buffers of two files, the   *)
(* names and the rules that refer to them, over files kept by fbuf.c and       *)
(* fbuf-sysfile.c with one backup each, in the steps of db_transaction_begin   *)
(* and db_transaction_end (src/src/db.c), of one start of the daemon and of    *)
(* the next ones.                                                              *)
(*                                                                             *)
(* The names of a key are reduced to one, the value of a rule is not a name.   *)
(* A size is 1 for the identifier and 1 for each entry: all names have the     *)
(* same length, for which the size of a file tells the least of its content.   *)
(* An operator named Faulty... is not the code: it is a plausible mistake in    *)
(* the definition it precedes, kept to show which property catches it.         *)
(*******************************************************************************)
EXTENDS Sequences, Ranks

CONSTANTS
  Keys, Values,
  Missing,       (* what is at the path of a file that does not exist          *)
  Fresh,         (* a file of 0 bytes, as open and creat make it               *)
  Unreadable,    (* a file whose identifier or last name is cut                *)
  MayFail        (* can writes and links fail?                                 *)

Rule == [name : Nat, value : Values]

ASSUME MayFailIsBoolean == MayFail \in BOOLEAN
ASSUME NoFileIsABuffer ==
  /\ Missing # Fresh /\ Missing # Unreadable /\ Fresh # Unreadable
  /\ \A x \in {Missing, Fresh, Unreadable} : x \notin Seq(Keys) /\ x \notin Seq(Rule)

VARIABLES
  names,         (* buffer of the names: what an index in a rule refers to     *)
  rules,         (* buffer of the rules: a sequence of Rule                    *)
  saved,         (* field of each buffer: the bytes known to be in its file    *)
  size,          (* field of each buffer: the bytes of its file                *)
  is_changed, need_cleanup, has_backup,
  backuped,      (* the buffers whose flag "backuped" is set                   *)
  disk,          (* the two files                                              *)
  copy,          (* the two backups, the same files with a ~                   *)
  linked,        (* the files that are still the same inode as their backup    *)
  phase,         (* where db_transaction_begin and _end are                    *)
  step,          (* where the writing of a file is, kept when the daemon stops *)
  written,       (* history: what the rules said when they were last written   *)
  atStart,       (* history: what the rules said when the transaction began,   *)
                 (* until it commits                                           *)
  history        (* history: facts on the past, as a subset of Facts           *)

buffers  == <<names, rules, saved, size, is_changed, need_cleanup, has_backup, backuped>>
files    == <<disk, copy, linked>>
vars     == <<buffers, files, phase, step, written, atStart, history>>

Both == {"names", "rules"}

(* Since the files were opened: "fresh": one of them was made by the opening   *)
(* or had 0 bytes; "renumbered": the names in memory no longer extend those on *)
(* disk, until both files are written; "synced": files were written; "failed": *)
(* a write failed; "cancelled": the last step cancelled.                       *)
Facts == {"fresh", "renumbered", "synced", "failed", "cancelled"}

Says(ns, rs) ==
  [k \in {ns[rs[i].name] : i \in DOMAIN rs} |->
    rs[CHOOSE i \in DOMAIN rs : ns[rs[i].name] = k].value]
Content == Says(names, rules)

(* fbuf_read and fbuf_identify: an empty file is a new one.                    *)
IsNew(file) == file \in {Missing, Fresh}
Loaded(file) == IF IsNew(file) THEN <<>> ELSE file

(* init_names, init_rules.                                                     *)
Readable(file) ==
  /\ Unreadable \notin {file.names, file.rules}
  /\ \A i \in DOMAIN Loaded(file.rules) :
        Loaded(file.rules)[i].name \in DOMAIN Loaded(file.names)

(* fbuf_recover does not identify what it reads: in a backup of 0 bytes,       *)
(* init_rules computes a huge count of rules and meets a bad one.              *)
Recoverable(file) == Readable(file) /\ ~IsNew(file.rules)

Buffer(f) == IF f = "names" THEN names ELSE rules
SizeOf(buffer) == 1 + Len(buffer)

NoSize == [f \in Both |-> 0]
Running == phase \notin {"closed", "exited", "broken"}

Init ==
  /\ names = <<>> /\ rules = <<>> /\ saved = NoSize /\ size = NoSize
  /\ is_changed = FALSE /\ need_cleanup = FALSE /\ has_backup = FALSE
  /\ backuped = {}
  /\ disk = [f \in Both |-> Missing] /\ copy = disk /\ linked = {}
  /\ phase = "closed" /\ step = "none"
  /\ written = <<>> /\ atStart = <<>> /\ history = {}

--------------------------------------------------------------------------------
(* Restart.  What is not on disk is lost: db_close writes nothing.            *)
Lost ==
  /\ names' = <<>> /\ rules' = <<>> /\ saved' = NoSize /\ size' = NoSize
  /\ is_changed' = FALSE /\ need_cleanup' = FALSE /\ has_backup' = FALSE
  /\ backuped' = {}
  /\ atStart' = <<>>

Stop ==
  /\ Running
  /\ Lost
  /\ phase' = "closed"
  /\ UNCHANGED <<files, step, written, history>>

(* opendb; a buffer knows it has a backup when both files are one inode.  The  *)
(* backups are not looked at: nothing is recovered here.                       *)
Created(file) == IF file = Missing THEN Fresh ELSE file

Open ==
  /\ phase \in {"closed", "exited"}
  /\ disk' = [f \in Both |-> IF f = "rules" /\ disk.names = Unreadable THEN disk[f]
                             ELSE Created(disk[f])]
  /\ IF Readable(disk)
     THEN /\ names' = Loaded(disk.names) /\ rules' = Loaded(disk.rules)
          /\ size' = [f \in Both |-> IF IsNew(disk[f]) THEN 0 ELSE SizeOf(disk[f])]
          /\ saved' = size'
          /\ backuped' = linked
          /\ is_changed' = FALSE /\ need_cleanup' = FALSE /\ has_backup' = FALSE
          /\ history' = IF \E f \in Both : IsNew(disk[f]) THEN {"fresh"} ELSE {}
          /\ written' = Says(Loaded(disk.names), Loaded(disk.rules))
          /\ step' = "none" /\ phase' = "idle"
     ELSE phase' = "broken" /\ UNCHANGED <<buffers, step, written, history>>
  /\ UNCHANGED <<copy, linked, atStart>>

(* Each start of the daemon fails again.                                       *)
OpenAgain == phase = "broken" /\ UNCHANGED vars

--------------------------------------------------------------------------------
(* db_transaction_begin.  fbuf_backup links the files of "links", which are    *)
(* still those that were opened; the one of "lost" could not be linked again   *)
(* after its old backup was removed.                                          *)
(* A failure leaves the memory database inside its transaction: every later    *)
(* begin fails too, whatever it does to the backups.                           *)
BackUp(links, lost) ==
  /\ copy' = [f \in Both |-> IF f \in links THEN disk[f]
                             ELSE IF f \in lost THEN Missing ELSE copy[f]]
  /\ linked' = (linked \cup links) \ lost
  /\ backuped' = backuped \cup links

Begin ==
  /\ phase \in {"idle", "stuck"}
  /\ \/ /\ has_backup
        /\ UNCHANGED <<has_backup, backuped, copy, linked>>
     \/ /\ ~has_backup
        /\ BackUp(Both \ backuped, {})
        /\ has_backup' = TRUE
  /\ IF phase = "stuck" THEN UNCHANGED <<phase, atStart>>
     ELSE phase' = "transaction" /\ atStart' = Content
  /\ history' = history \ {"cancelled"}
  /\ UNCHANGED <<names, rules, saved, size, is_changed, need_cleanup, disk, step, written>>

LinkFails ==
  \/ "names" \notin backuped /\ BackUp({}, {"names"})
  \/ "rules" \notin backuped /\ BackUp({"names"} \ backuped, {"rules"})

FaultyBeginFails ==
  /\ phase \in {"idle", "stuck"}
  /\ MayFail /\ ~has_backup /\ LinkFails
  /\ phase' = "stuck" /\ has_backup' = TRUE
  /\ UNCHANGED <<names, rules, saved, size, is_changed, need_cleanup,
                 disk, step, written, atStart, history>>

BeginFails ==
  /\ phase \in {"idle", "stuck"}
  /\ MayFail /\ ~has_backup /\ LinkFails
  /\ phase' = "stuck"
  /\ UNCHANGED <<names, rules, saved, size, is_changed, need_cleanup, has_backup,
                 disk, step, written, atStart, history>>

(* The entry i of the rules is not what their file holds any more.             *)
Touched(i) == [saved EXCEPT !["rules"] = IF i < @ THEN i ELSE @]

(* anydb_set: index_itf may append the name; apply_itf updates in place a rule *)
(* that has another value, add_itf appends one: "used" only tells of it.       *)
Interned(key) ==
  IF \E i \in DOMAIN names : names[i] = key THEN names ELSE Append(names, key)

RulesOf(n) == {i \in DOMAIN rules : rules[i].name = n}

Set(key, value) ==
  /\ phase = "transaction"
  /\ names' = Interned(key)
  /\ LET n == CHOOSE n \in DOMAIN names' : names'[n] = key
     IN  \/ /\ RulesOf(n) = {}
            /\ rules' = Append(rules, [name |-> n, value |-> value])
            /\ is_changed' = TRUE
            /\ UNCHANGED <<saved, need_cleanup>>
         \/ \E i \in RulesOf(n) :
              IF rules[i].value = value
              THEN UNCHANGED <<rules, saved, is_changed, need_cleanup>>
              ELSE /\ rules' = [rules EXCEPT ![i].value = value]
                   /\ saved' = Touched(i)
                   /\ is_changed' = TRUE /\ need_cleanup' = TRUE
  /\ UNCHANGED <<size, has_backup, backuped, files, phase, step, written, atStart, history>>

(* A rule that the traversal of apply_itf removes, dropped or met dead: the    *)
(* last one moves to its place.                                               *)
Without(i) ==
  SubSeq([rules EXCEPT ![i] = rules[Len(rules)]], 1, Len(rules) - 1)

FaultyRemove(i) ==
  /\ phase \in {"idle", "stuck", "transaction", "cleanup"}
  /\ rules' = Without(i) /\ saved' = Touched(i)
  /\ need_cleanup' = TRUE
  /\ history' = history \ {"cancelled"}
  /\ atStart' = IF phase = "transaction" THEN atStart ELSE <<>>
  /\ UNCHANGED <<names, size, is_changed, has_backup, backuped, files, phase, step, written>>

Remove(i) ==
  /\ phase \in {"idle", "stuck", "transaction", "cleanup"}
  /\ rules' = Without(i) /\ saved' = Touched(i)
  /\ is_changed' = TRUE /\ need_cleanup' = TRUE
  /\ history' = history \ {"cancelled"}
  /\ atStart' = IF phase = "transaction" THEN atStart ELSE <<>>
  /\ UNCHANGED <<names, size, has_backup, backuped, files, phase, step, written>>

--------------------------------------------------------------------------------
(* db_transaction_end.  With commit: syncdb, anydb_cleanup, syncdb again.      *)
Commit ==
  /\ phase = "transaction"
  /\ phase' = "commit_names" /\ atStart' = <<>>
  /\ UNCHANGED <<buffers, files, step, written, history>>

(* recoverdb.  The sync that follows has nothing to do: is_changed is false.   *)
(* Backups that cannot be read end the daemon.  Names read from 0 bytes have   *)
(* no identifier: no file that follows can be opened.                         *)
FaultyRecover ==
  /\ names' = copy.names /\ rules' = copy.rules
  /\ size' = [f \in Both |-> SizeOf(copy[f])] /\ saved' = size'
  /\ backuped' = Both
  /\ is_changed' = FALSE /\ need_cleanup' = FALSE

Recover ==
  /\ names' = copy.names /\ rules' = copy.rules
  /\ size' = [f \in Both |-> SizeOf(copy[f])] /\ saved' = NoSize
  /\ backuped' = Both
  /\ is_changed' = FALSE /\ need_cleanup' = FALSE

Cancel ==
  /\ phase = "transaction"
  /\ IF ~is_changed \/ ~has_backup
     THEN /\ UNCHANGED <<buffers, atStart>>
          /\ phase' = "idle" /\ history' = history \cup {"cancelled"}
     ELSE IF Recoverable(copy) /\ ~IsNew(copy.names)
     THEN /\ Recover /\ UNCHANGED <<has_backup, atStart>>
          /\ phase' = "idle" /\ history' = history \cup {"cancelled", "renumbered"}
     ELSE /\ Lost /\ UNCHANGED history
          /\ phase' = IF Recoverable(copy) THEN "broken" ELSE "exited"
  /\ UNCHANGED <<files, step, written>>

(* fbuf_sync compares three sizes, and nothing else.                           *)
NeedsWrite(f) == SizeOf(Buffer(f)) # saved[f] \/ SizeOf(Buffer(f)) # size[f]

(* The file that syncdb is at, what follows a sync that ends or fails, and     *)
(* what follows the success of a file.                                        *)
FaultyCurrent == IF phase \in {"commit_names", "last_names"} THEN "rules" ELSE "names"
Current == IF phase \in {"commit_names", "last_names"} THEN "names" ELSE "rules"

Syncing == phase \in {"commit_names", "commit_rules", "last_names", "last_rules"}
AfterSync == IF phase \in {"commit_names", "commit_rules"} THEN "cleanup" ELSE "idle"

Synced ==
  \/ /\ phase \in {"commit_names", "last_names"}
     /\ phase' = IF phase = "commit_names" THEN "commit_rules" ELSE "last_rules"
     /\ UNCHANGED <<is_changed, has_backup, written, history>>
  \/ /\ phase \in {"commit_rules", "last_rules"}
     /\ phase' = AfterSync
     /\ is_changed' = FALSE /\ has_backup' = FALSE
     /\ written' = IF "failed" \in history THEN written ELSE Content
     /\ history' = (history \ {"renumbered"}) \cup {"synced"}

NothingToSync ==
  /\ phase \in {"commit_names", "last_names"} /\ step = "none"
  /\ ~is_changed
  /\ phase' = AfterSync
  /\ UNCHANGED <<buffers, files, step, written, atStart, history>>

SkipFile ==
  /\ Syncing /\ step = "none" /\ is_changed
  /\ ~NeedsWrite(Current)
  /\ Synced
  /\ UNCHANGED <<names, rules, saved, size, need_cleanup, backuped, files, step, atStart>>

(* fbuf_sysfile_write_file, in its three calls.  The backup, another inode or  *)
(* another link to the one that is removed, is not touched.                   *)
UnlinkFile ==
  /\ Syncing /\ step = "none" /\ is_changed
  /\ NeedsWrite(Current)
  /\ disk' = [disk EXCEPT ![Current] = Missing]
  /\ linked' = linked \ {Current}
  /\ step' = "unlinked"
  /\ UNCHANGED <<buffers, copy, phase, written, atStart, history>>

CreateFile ==
  /\ Syncing /\ step = "unlinked"
  /\ disk' = [disk EXCEPT ![Current] = Fresh]
  /\ step' = "created"
  /\ UNCHANGED <<buffers, copy, linked, phase, written, atStart, history>>

WriteFile ==
  /\ Syncing /\ step = "created"
  /\ disk' = [disk EXCEPT ![Current] = Buffer(Current)]
  /\ size' = [size EXCEPT ![Current] = SizeOf(Buffer(Current))]
  /\ saved' = [saved EXCEPT ![Current] = SizeOf(Buffer(Current))]
  /\ step' = "none" /\ Synced
  /\ UNCHANGED <<names, rules, need_cleanup, backuped, copy, linked, atStart>>

(* A creation that fails leaves no file, a write that fails leaves an empty or *)
(* a truncated one.                                                           *)
LeftBy(failure) ==
  IF failure = "unlinked" THEN {Missing}
  ELSE {Fresh, Unreadable} \cup {SubSeq(Buffer(Current), 1, n) : n \in 0 .. Len(Buffer(Current)) - 1}

WriteFails ==
  /\ MayFail
  /\ Syncing /\ step # "none"
  /\ \E left \in LeftBy(step) : disk' = [disk EXCEPT ![Current] = left]
  /\ step' = "none" /\ phase' = AfterSync
  /\ history' = history \cup {"failed"}
  /\ UNCHANGED <<buffers, copy, linked, written, atStart>>

(* gc_itf packs the names when more than one in five is not used.             *)
UsedNames == {rules[i].name : i \in DOMAIN rules}
FaultyPackedNames(used) == SubSeq(names, 1, Cardinality(used))
PackedNames(used) == Picked(names, used)
Renumbered(used) == [i \in DOMAIN rules |-> [rules[i] EXCEPT !.name = Rank(used, @)]]

Gc ==
  LET used  == UsedNames
      count == Cardinality(used)
      packs == need_cleanup /\ count + (count \div 4) < Len(names)
  IN  /\ phase = "cleanup" /\ phase' = "last_names"
      /\ need_cleanup' = FALSE
      /\ IF packs
         THEN /\ names' = PackedNames(used) /\ rules' = Renumbered(used)
              /\ saved' = [f \in Both |-> 1]
              /\ is_changed' = TRUE
              /\ history' = history \cup {"renumbered"}
         ELSE UNCHANGED <<names, rules, saved, is_changed, history>>
      /\ UNCHANGED <<size, has_backup, backuped, files, step, written, atStart>>

Next ==
  \/ Stop \/ Open \/ OpenAgain
  \/ Begin \/ BeginFails
  \/ \E k \in Keys, v \in Values : Set(k, v)
  \/ \E i \in DOMAIN rules : Remove(i)
  \/ Commit \/ Cancel
  \/ NothingToSync \/ SkipFile \/ UnlinkFile \/ CreateFile \/ WriteFile \/ WriteFails
  \/ Gc

Spec == Init /\ [][Next]_vars
--------------------------------------------------------------------------------
(* The buffers are well formed: no name twice, no name with two rules, and     *)
(* every rule refers to a name that exists, after packing, recovering and      *)
(* opening as well; nothing is known to be saved past the end of a buffer.     *)
TypeOK ==
  /\ names \in Seq(Keys) /\ rules \in Seq(Rule)
  /\ \A i, j \in DOMAIN names : names[i] = names[j] => i = j
  /\ \A i, j \in DOMAIN rules : rules[i].name = rules[j].name => i = j
  /\ \A i \in DOMAIN rules : rules[i].name \in DOMAIN names
  /\ size \in [Both -> Nat] /\ saved \in [Both -> Nat]
  /\ \A f \in Both : saved[f] <= SizeOf(Buffer(f))
  /\ backuped \subseteq Both /\ linked \subseteq Both
  /\ history \subseteq Facts

(* As long as no write failed, the sizes that fbuf_sync compares tell whether  *)
(* a file is up to date: a buffer whose writing would be skipped is what its   *)
(* file holds, whatever additions, removals that fill the hole with the last   *)
(* rule, packings and recovered backups came before.                          *)
SavedIsOnDisk ==
  Running /\ step = "none" /\ "failed" \notin history =>
    \A f \in Both : ~NeedsWrite(f) => disk[f] = Buffer(f)

(* The daemon can be stopped at any time but within the writing of a file,     *)
(* between the two files of a sync too: the files open, and say what was last  *)
(* written.  It is so because the names go first and only grow, and not so any *)
(* more from a packing or a recovery to the next time both files are written   *)
(* (syncdb).                                                                  *)
StopLosesNothingWritten ==
  step = "none" /\ {"failed", "renumbered"} \cap history = {} =>
    Readable(disk) /\ Says(Loaded(disk.names), Loaded(disk.rules)) = written

(* Unless a file was empty when it was opened, a recovery can always read the  *)
(* backups it relies on, so that cancelling does not end the daemon, though    *)
(* writes may have failed, each file has its own backup, and one may have been *)
(* linked in an attempt that failed for the other: the two are of one moment   *)
(* (backupdb, recoverdb).                                                     *)
BackupsReadable ==
  Running /\ has_backup /\ "fresh" \notin history =>
    Recoverable(copy) /\ ~IsNew(copy.names)

(* What a cancelled transaction gives back: each rule it found has the same    *)
(* decision.  Rules that are dead by then may come back too, and stay dead.    *)
GivenBack == \A k \in DOMAIN atStart : k \in DOMAIN Content /\ Content[k] = atStart[k]

(* Until the first write after the daemon started, a cancelled transaction     *)
(* that ends gives back the rules it found (fbuf_backup, recoverdb).          *)
FirstCancelRestores ==
  "cancelled" \in history /\ {"synced", "failed"} \cap history = {} => GivenBack

(* Removing the dead rules and packing the names gives no rule another         *)
(* decision (anydb_cleanup, gc_itf).                                          *)
DecisionsSurviveGc ==
  [][phase = "cleanup" /\ phase' \in {"cleanup", "last_names"} =>
       \A k \in DOMAIN Content' : k \in DOMAIN Content /\ Content'[k] = Content[k]]_vars
================================================================================
