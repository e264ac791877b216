------------------------------- MODULE ConfigFiles -------------------------------
(***************************************************************************)
(* The configuration of one project: the user's file and lspee.toml, the   *)
(* layers they are merged in, the identity that the merge gives a session, *)
(* the `lspee config` commands that rewrite lspee.toml in place, and the   *)
(* two places that read the files for one attach: the client, which hashes *)
(* the merge into the session key, and later the daemon, which starts the  *)
(* server.                                                                 *)
(*                                                                         *)
(* Of a server's entry only the command is kept: args, env and options are *)
(* merged in the same way.  `ttl` stands for the settings outside of lsp.  *)
(* The hash is the merged configuration itself.                            *)
(***************************************************************************)
EXTENDS Integers, Sequences, SequencesExt

CONSTANTS
    Ids, Commands,
    BuiltIn,       \* BuiltIn[id]: the command of the default catalog, or Absent
    UserFiles, ProjectFiles, \* initial contents
    Writers,       \* processes that run `lspee config`
    Clients,       \* processes that attach
    MaxEdits,      \* bound: config commands in a behaviour
    Empty, None, Absent, \* no command text; a field not set; no entry
    NotTables,     \* `lsp` is a scalar
    Bad,           \* a value of the wrong type
    Missing        \* no file

Ttls == {1, 2}

\* lspee.toml as TOML allows it: an entry may leave its command out, and values of the wrong type
\* are noticed by the next resolve.  Every entry names its id.
Entries   == [id : Ids, command : Commands \cup {Empty, None}]
Documents == [lsp : Seq(Entries) \cup {NotTables}, ttl : Ttls \cup {None, Bad}]

ASSUME TokensAssumption == /\ {Empty, None, Absent} \cap Commands = {}
                           /\ Empty # Absent /\ None \notin Ids
ASSUME BuiltInAssumption == BuiltIn \in [Ids -> Commands \cup {Absent}]
ASSUME BoundAssumption == MaxEdits \in Nat
ASSUME FilesAssumption == /\ UserFiles \cup ProjectFiles \subseteq Documents \cup {Missing}
                          /\ Missing \notin Documents /\ NotTables \notin Seq(Entries)

VARIABLES
    user, project,  \* the two files
    wpc, edit, doc, \* a config command: where it is, what it does, the document it holds
    cpc, want,      \* a client: where it is, the server it wants
    key, merged,    \* its session key; what the daemon read for it
    sessions,       \* started sessions: key, id, and the command they run
    edits,
    saw,     \* history: the merge a client hashed
    stale,   \* history: writers whose document was overtaken by another writer's file
    raced,   \* history: clients during whose attach the file changed
    promised \* history: the command of each id that the last completed edit reported

vars == <<user, project, wpc, edit, doc, cpc, want, key, merged, sessions, edits,
          saw, stale, raced, promised>>
files   == <<user, project>>
writing == <<wpc, edit, doc, edits, stale, promised>>
asking  == <<cpc, want, key, merged, sessions, saw>>

Entry(id, c) == [id |-> id, command |-> c]
EmptyDoc     == [lsp |-> <<>>, ttl |-> None]
Edits ==
    [op : {"add"}, id : Ids, value : Commands] \cup [op : {"remove"}, id : Ids, value : {None}]
        \cup [op : {"set"}, id : {None}, value : {1, Bad, NotTables}]
        \cup {[op |-> "init", id |-> id, value |-> BuiltIn[id]] : id \in {x \in Ids : BuiltIn[x] # Absent}}
        \cup [op : {"init"}, id : {None}, value : {None}]

--------------------------------------------------------------------------------
\* Resolution

\* toml::from_str::<PartialConfig>: a file that fails here fails every resolve.
Parses(f) == IF f = Missing THEN TRUE ELSE f.lsp # NotTables /\ f.ttl # Bad
Layer(f)  == IF f = Missing THEN EmptyDoc ELSE f

\* One [[lsp]] entry on top of what is known of its id: an unset field changes nothing, and a
\* new id starts without a command.
ApplyEntry(lsps, e) ==
    [lsps EXCEPT ![e.id] = IF e.command # None THEN e.command
                           ELSE IF @ = Absent THEN Empty ELSE @]

ApplyEntries(lsps, f) == FoldLeft(ApplyEntry, lsps, Layer(f).lsp)

ApplyPartial(m, f) ==
    [lsps |-> ApplyEntries(m.lsps, f),
     ttl  |-> IF Layer(f).ttl # None THEN Layer(f).ttl ELSE m.ttl]

DefaultConfig == [lsps |-> [id \in Ids |-> Absent], ttl |-> 0]

\* Mutant: the user's file on top of the project's.
ResolveUserLast(u, p) == ApplyPartial(ApplyPartial(DefaultConfig, p), u)

Resolve(u, p) == ApplyPartial(ApplyPartial(DefaultConfig, u), p)

\* What the layers mean: the last entry that sets the command of an id wins, wherever it is
\* written; an id that no entry mentions is absent.
LastSetting(u, p, id) ==
    LET all  == Layer(u).lsp \o Layer(p).lsp
        mine == {i \in DOMAIN all : all[i].id = id}
        set  == {i \in mine : all[i].command # None}
    IN  IF mine = {} THEN Absent ELSE IF set = {} THEN Empty ELSE all[Max(set)].command

\* load_registry: the default catalog under the entries of both files.
Catalog(u, p) == ApplyEntries(ApplyEntries(BuiltIn, u), p)

\* resolve_lsp_config: the explicit command, else the catalog's; Absent is an error.
ResolveLsp(m, catalog, id) == IF m.lsps[id] \in Commands THEN m.lsps[id] ELSE catalog[id]

\* Mutant: only the settings outside of lsp are hashed.
HashSettings(m) == [m EXCEPT !.lsps = DefaultConfig.lsps]

HashIdentity(m) == m

--------------------------------------------------------------------------------
\* lspee config

Matching(f, id) == {i \in DOMAIN f.lsp : f.lsp[i].id = id}

\* The first entry with the id is updated, or one is appended.
AddLsp(f, id, c) ==
    IF Matching(f, id) = {} THEN [f EXCEPT !.lsp = Append(@, Entry(id, c))]
    ELSE [f EXCEPT !.lsp[Min(Matching(f, id))].command = c]

\* Mutant: only the first entry with the id is removed.
RemoveOnlyFirst(f, id) ==
    [f EXCEPT !.lsp = RemoveAt(@, Min(Matching(f, id)))]

\* The loop over lsp_array: every entry with the id goes, the others keep their order.
Without(lsp, id) == FoldLeft(LAMBDA kept, e : IF e.id = id THEN kept ELSE Append(kept, e), <<>>, lsp)

RemoveLsp(f, id) == [f EXCEPT !.lsp = Without(f.lsp, id)]

\* No value is checked against the type of its key.
SetKey(f, v) == IF v = NotTables THEN [f EXCEPT !.lsp = NotTables] ELSE [f EXCEPT !.ttl = v]

\* The template names the servers whose project markers were found, or none.
InitTemplate(id, c) == [lsp |-> IF id = None THEN <<>> ELSE <<Entry(id, c)>>, ttl |-> 2]

\* What the command does to the document it loaded.
Edited(e, f) ==
    CASE e.op = "add"    -> AddLsp(f, e.id, e.value)
      [] e.op = "remove" -> RemoveLsp(f, e.id)
      [] e.op = "set"    -> SetKey(f, e.value)
      [] e.op = "init"   -> InitTemplate(e.id, e.value)

\* The errors: no file or no entry to remove, `lsp` not an array of tables (add panics on it).
\* An init without --force refuses an existing file, one with it does not.
Refused(e, f) ==
    CASE e.op = "add"    -> Layer(f).lsp = NotTables
      [] e.op = "remove" -> IF Layer(f).lsp = NotTables THEN TRUE ELSE Matching(Layer(f), e.id) = {}
      [] OTHER           -> FALSE

Init ==
    /\ user \in UserFiles /\ project \in ProjectFiles
    /\ wpc = [w \in Writers |-> "idle"] /\ edit = [w \in Writers |-> None]
    /\ doc = [w \in Writers |-> EmptyDoc]
    /\ cpc = [c \in Clients |-> "idle"] /\ want \in [Clients -> Ids]
    /\ key = [c \in Clients |-> None] /\ merged = [c \in Clients |-> None]
    /\ sessions = {} /\ edits = 0
    /\ saw = [c \in Clients |-> None] /\ stale = {} /\ raced = {} /\ promised = [id \in Ids |-> None]

\* The file is read and the document edited in memory.
Load(w, e) ==
    /\ wpc[w] = "idle"
    /\ edits < MaxEdits
    /\ ~Refused(e, project)
    /\ edits' = edits + 1
    /\ wpc' = [wpc EXCEPT ![w] = "loaded"]
    /\ edit' = [edit EXCEPT ![w] = e]
    /\ doc' = [doc EXCEPT ![w] = Edited(e, Layer(project))]
    /\ stale' = IF \E v \in Writers : wpc[v] = "truncated" THEN stale \cup {w} ELSE stale \ {w}
    /\ UNCHANGED <<files, asking, raced, promised>>

\* What a completed command told its user about the servers: nothing that holds when another
\* writer overtook it; after init nothing of the entries it dropped.
Promise(w) ==
    LET e == edit[w] IN
    IF w \in stale \/ (e.op = "set" /\ e.value = NotTables) THEN [id \in Ids |-> None]
    ELSE CASE e.op = "add"    -> [promised EXCEPT ![e.id] = e.value]
           [] e.op = "remove" -> [promised EXCEPT ![e.id] = LastSetting(user, Missing, e.id)]
           [] e.op = "set"    -> promised
           [] e.op = "init"   -> [id \in Ids |-> IF id = e.id THEN e.value ELSE None]

\* The file changes under everybody else who is at work.
Put(w, f) ==
    /\ project' = f
    /\ stale' = (IF wpc'[w] = "idle" THEN stale \ {w} ELSE stale)
                   \cup {v \in Writers \ {w} : wpc[v] # "idle"}
    /\ raced' = raced \cup {c \in Clients : cpc[c] \in {"hashed", "spawning"}}

\* The process ends.
End(w) ==
    /\ wpc' = [wpc EXCEPT ![w] = "idle"]
    /\ edit' = [edit EXCEPT ![w] = None]
    /\ doc' = [doc EXCEPT ![w] = EmptyDoc]

\* fs::write truncates the file, then writes it.
Truncate(w) ==
    /\ wpc[w] = "loaded"
    /\ wpc' = [wpc EXCEPT ![w] = "truncated"]
    /\ Put(w, EmptyDoc)
    /\ UNCHANGED <<user, asking, edit, doc, edits, promised>>

Write(w) ==
    /\ wpc[w] = "truncated"
    /\ End(w)
    /\ Put(w, doc[w])
    /\ promised' = Promise(w)
    /\ UNCHANGED <<user, asking, edits>>

\* The command is killed between the two and leaves the empty file.
Die(w) ==
    /\ wpc[w] = "truncated"
    /\ End(w)
    /\ promised' = [id \in Ids |-> None]
    /\ stale' = stale \ {w}
    /\ UNCHANGED <<files, asking, edits, raced>>

--------------------------------------------------------------------------------
\* Attaching

Readable == Parses(user) /\ Parses(project)

\* The client resolves and hashes ...
Hash(c) ==
    /\ cpc[c] = "idle"
    /\ Readable
    /\ LET m == Resolve(user, project)
       IN  saw' = [saw EXCEPT ![c] = m] /\ key' = [key EXCEPT ![c] = HashIdentity(m)]
    /\ cpc' = [cpc EXCEPT ![c] = "hashed"]
    /\ UNCHANGED <<files, writing, want, merged, sessions, raced>>

Sessions(c) == {s \in sessions : s.key = key[c] /\ s.id = want[c]}
SameKey(c)  == {d \in Clients : key[d] = key[c] /\ want[d] = want[c]}

\* ... and the daemon reuses the session of that key, or resolves on its own, one client of a
\* key at a time ...
Attach(c) ==
    /\ cpc[c] = "hashed"
    /\ \A d \in SameKey(c) : cpc[d] # "spawning"
    /\ IF Sessions(c) # {}
       THEN cpc' = [cpc EXCEPT ![c] = "attached"] /\ UNCHANGED merged
       ELSE IF Readable
       THEN /\ cpc' = [cpc EXCEPT ![c] = "spawning"]
            /\ merged' = [merged EXCEPT ![c] = Resolve(user, project)]
       ELSE cpc' = [cpc EXCEPT ![c] = "refused"] /\ UNCHANGED merged
    /\ UNCHANGED <<files, writing, want, key, sessions, saw, raced>>

\* ... reads the files once more for the catalog, and starts the server.  An empty command or
\* no entry at all is an error.
Spawn(c) ==
    /\ cpc[c] = "spawning"
    /\ LET command == ResolveLsp(merged[c], Catalog(user, project), want[c])
       IN IF Readable /\ command \in Commands
          THEN /\ cpc' = [cpc EXCEPT ![c] = "attached"]
               /\ sessions' = sessions \cup {[key |-> key[c], id |-> want[c], runs |-> command,
                                              raced |-> c \in raced]}
          ELSE cpc' = [cpc EXCEPT ![c] = "refused"] /\ UNCHANGED sessions
    /\ merged' = [merged EXCEPT ![c] = None]
    /\ UNCHANGED <<files, writing, want, key, saw, raced>>

Next ==
    \/ \E w \in Writers : (\E e \in Edits : Load(w, e)) \/ Truncate(w) \/ Write(w) \/ Die(w)
    \/ \E c \in Clients : Hash(c) \/ Attach(c) \/ Spawn(c)

Spec == Init /\ [][Next]_vars

--------------------------------------------------------------------------------
\* Properties

\* The merge of the two files is that meaning, for every pair of files that the commands can
\* lead to (resolve, apply_partial).
LastLayerWins ==
    Readable => \A id \in Ids : Resolve(user, project).lsps[id] = LastSetting(user, project, id)

\* A client is attached to the server that its own reading of the files selects, whoever
\* started that session and however often the files were rewritten since, unless they changed
\* while the first client of the session was attaching (hash_identity, resolve_lsp_config).
ClientsServer ==
    \A c \in Clients : cpc[c] = "attached" =>
        \E s \in Sessions(c) :
            s.raced \/ s.runs = IF saw[c].lsps[want[c]] \in Commands THEN saw[c].lsps[want[c]]
                                ELSE BuiltIn[want[c]]

\* What a config command reported stays what a resolve finds, until a later command names that
\* server again, or two commands overlap, or one dies: add-lsp and init, unless the file names
\* the id twice, give the id the command; remove-lsp leaves the user's.
EditsLast ==
    Readable /\ (\A w \in Writers : wpc[w] # "truncated") =>
        \A id \in Ids :
            \/ promised[id] \in {None, Resolve(user, project).lsps[id]}
            \/ \E i, j \in Matching(Layer(project), id) : i # j

================================================================================
