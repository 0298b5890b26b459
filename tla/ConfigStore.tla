----------------------------- MODULE ConfigStore -----------------------------
(***************************************************************************)
(* Layered settings and their persistence in the central daemon            *)
(* (central-daemon/src/trie.c, run with --persist).                        *)
(*                                                                         *)
(* A setting belongs to a path and is inherited below it; a transient      *)
(* setting belongs to one connection, hides all of them and goes with it.  *)
(* After every persistent change the daemon writes all settings, a line    *)
(* each, to a temporary file and renames it; a new process loads the file. *)
(*                                                                         *)
(* The daemon is one thread: no request is handled while it saves.  It may *)
(* be killed at any time; a restart is a kill and a load.  The escaping of *)
(* lines is taken as lossless, so lines are records; a node is saved after *)
(* its ancestors, otherwise the hash tables give any order.  Losing the    *)
(* file system's own caches (power failure) is out of scope.               *)
(***************************************************************************)
EXTENDS Integers, FiniteSets, Sequences, SequencesExt

CONSTANTS
  Dir, DirsAbove, Root,     \* paths, their strict ancestors, and "/"
  Key, Value, Unset,
  Conn,                    \* descriptors of clients
  SaveMayFail            \* whether fopen, fclose and rename may fail

ASSUME ConfigAssumption ==
  /\ Root \in Dir /\ DirsAbove[Root] = {}
  /\ \A n \in Dir \ {Root} : Root \in DirsAbove[n]
  /\ \A n \in Dir : n \notin DirsAbove[n]
  /\ Unset \notin Value
  /\ SaveMayFail \in BOOLEAN

VARIABLES
  attached,
  settings,      \* per node and key
  transient,     \* transient_registry: per descriptor and key
  saving,        \* progress of trie_save_persist
  disk,          \* lines of the persist file, in order
  lastSaved,     \* the settings the file was last written from
  saveFailed     \* whether the last save failed, which is only logged

configVars == <<attached, settings, transient, saving, disk, lastSaved, saveFailed>>

NoSettings == [n \in Dir |-> [k \in Key |-> Unset]]
IsSet(s, n, k) == s[n][k] # Unset

\* then: what follows the save; todo: settings not written yet; tmp: lines of the .tmp file
NotSaving == [then |-> "serve", todo |-> {}, tmp |-> <<>>, active |-> FALSE]

ConfigInit ==
  /\ attached = {}
  /\ settings = NoSettings
  /\ transient = [f \in Conn |-> [k \in Key |-> Unset]]
  /\ saving = NotSaving
  /\ disk = <<>>
  /\ lastSaved = NoSettings
  /\ saveFailed = FALSE

-----------------------------------------------------------------------------
(* The file.                                                               *)

\* node_save_recursive_iterative prints path_buf up to parent_path_len, and a child's
\* parent_path_len is its parent's: the path of every line is that of the root.
SavedPath(n) == Root

SavedLine(s, n, k) == [path |-> SavedPath(n), key |-> k, value |-> s[n][k]]

\* trie_load_persist: line after line, a later one overrides.
Loaded(lines) ==
  [n \in Dir |-> [k \in Key |->
     LET at == {i \in DOMAIN lines : lines[i].path = n /\ lines[i].key = k}
     IN IF at = {} THEN Unset ELSE lines[CHOOSE i \in at : \A j \in at : j <= i].value]]

SaveBegins(s, then) ==
  saving' = [then |-> then, tmp |-> <<>>, active |-> TRUE,
             todo |-> {p \in Dir \X Key : IsSet(s, p[1], p[2])}]

\* One line of the temporary file.
SaveLine ==
  /\ saving.active
  /\ \E p \in saving.todo :
       /\ \A q \in saving.todo : q[1] \notin DirsAbove[p[1]]
       /\ saving' = [saving EXCEPT !.todo = @ \ {p},
                                   !.tmp = Append(@, SavedLine(settings, p[1], p[2]))]
  /\ UNCHANGED <<attached, settings, transient, disk, lastSaved, saveFailed>>

\* fclose and rename: the file is replaced as a whole.
SaveDone ==
  /\ saving.active
  /\ saving.then = "serve"
  /\ saving.todo = {}
  /\ disk' = saving.tmp
  /\ lastSaved' = settings
  /\ saveFailed' = FALSE
  /\ saving' = NotSaving
  /\ UNCHANGED <<attached, settings, transient>>

\* fopen, fclose or rename fails: the temporary file goes, the client is not told.
SaveFails ==
  /\ SaveMayFail
  /\ saving.active
  /\ saving.then = "serve"
  /\ saveFailed' = TRUE
  /\ saving' = NotSaving
  /\ UNCHANGED <<attached, settings, transient, disk, lastSaved>>

-----------------------------------------------------------------------------
(* Requests.                                                               *)

Serving == ~saving.active

Attach(f) ==
  /\ Serving
  /\ f \notin attached
  /\ attached' = attached \cup {f}
  /\ UNCHANGED <<settings, transient, saving, disk, lastSaved, saveFailed>>

Cleared(f) == [transient EXCEPT ![f] = [k \in Key |-> Unset]]

\* The part of trie_cleanup_fd about settings; the descriptor may be given again.
Detach(f) ==
  /\ Serving
  /\ f \in attached
  /\ attached' = attached \ {f}
  /\ transient' = Cleared(f)
  /\ UNCHANGED <<settings, saving, disk, lastSaved, saveFailed>>

\* set_config with "transient": true; no value removes the setting.
SetTransient(f, k, v) ==
  /\ Serving
  /\ f \in attached
  /\ transient' = [transient EXCEPT ![f][k] = v]
  /\ UNCHANGED <<attached, settings, saving, disk, lastSaved, saveFailed>>

SetPersistent_RemovalUnsaved(f, n, k, v) ==
  /\ Serving
  /\ f \in attached
  /\ settings' = [settings EXCEPT ![n][k] = v]
  /\ IF v = Unset THEN saving' = saving ELSE SaveBegins(settings', "serve")
  /\ UNCHANGED <<attached, transient, disk, lastSaved, saveFailed>>

\* set_config: the change, then the save.
SetPersistent(f, n, k, v) ==
  /\ Serving
  /\ f \in attached
  /\ settings' = [settings EXCEPT ![n][k] = v]
  /\ SaveBegins(settings', "serve")
  /\ UNCHANGED <<attached, transient, disk, lastSaved, saveFailed>>

\* SIGINT or SIGTERM: one more save.
Shutdown ==
  /\ Serving
  /\ SaveBegins(settings, "exit")
  /\ UNCHANGED <<attached, settings, transient, disk, lastSaved, saveFailed>>

Restarted(lines) ==
  /\ attached' = {}
  /\ settings' = Loaded(lines)
  /\ transient' = [f \in Conn |-> [k \in Key |-> Unset]]
  /\ saving' = NotSaving
  /\ saveFailed' = FALSE

\* The shutdown ends with or without a new file, and a new process loads the file.
Exit ==
  /\ saving.active
  /\ saving.then = "exit"
  /\ \/ /\ saving.todo = {}
        /\ disk' = saving.tmp
        /\ lastSaved' = settings
     \/ /\ SaveMayFail
        /\ UNCHANGED <<disk, lastSaved>>
  /\ Restarted(disk')

\* The process is killed, possibly in the middle of a save, and started again.
Crash ==
  /\ UNCHANGED <<disk, lastSaved>>
  /\ Restarted(disk)

ConfigNext ==
  \/ \E f \in Conn :
       \/ Attach(f) \/ Detach(f)
       \/ \E k \in Key, v \in Value \cup {Unset} :
            SetTransient(f, k, v) \/ \E n \in Dir : SetPersistent(f, n, k, v)
  \/ SaveLine \/ SaveDone \/ SaveFails
  \/ Shutdown \/ Exit \/ Crash

ConfigSpec == ConfigInit /\ [][ConfigNext]_configVars

-----------------------------------------------------------------------------
(* Properties.                                                             *)

\* "This prevents a crash during save from corrupting the official persist file": at every
\* moment the file is the whole image of one state of the settings, never half of one.
DiskWhole ==
  ToSet(disk) = {SavedLine(lastSaved, p[1], p[2]) :
                   p \in {q \in Dir \X Key : IsSet(lastSaved, q[1], q[2])}}

\* What a restart brings back of a key, given that every line is saved under "/" and later
\* lines override: the value of one of the lowest paths that have one, and that for "/".
ComesBack(k) ==
  LET back   == Loaded(disk)
      having == {n \in Dir : IsSet(settings, n, k)}
      lowest == {n \in having : \A m \in having : n \notin DirsAbove[m]}
  IN /\ \A n \in Dir \ {Root} : ~IsSet(back, n, k)
     /\ having = {} => ~IsSet(back, Root, k)
     /\ having # {} => \E n \in lowest : back[Root][k] = settings[n][k]

\* Every change that was answered "ok" is in the file, and so is every removal, unless a
\* save has failed since: a restart between requests brings back each key that is set
\* anywhere and no other.  It does not bring it back where it was: trie.c:587 writes "/"
\* for every path, so a key that is set on two paths has one value after it, everywhere.
Durable == Serving /\ ~saveFailed => \A k \in Key : ComesBack(k)

\* A transient setting never outlives its connection: the next client that is given the
\* descriptor starts without overrides.
TransientGone == \A f \in Conn \ attached : \A k \in Key : transient[f][k] = Unset

=============================================================================
