----------------------------- MODULE HostConfig -----------------------------
(***************************************************************************)
(* The files of other programs that iapeer writes into: codex's global     *)
(* config.toml, a peer folder's claude settings and codex hooks.json       *)
(* (launch/nativeMemory.ts, launch/codexHooksTrust.ts, approval/install.ts,*)
(* and the writers of init/index.ts).  Every write is a read, a change of  *)
(* some sections and an atomic replacement, under no lock: verbs, the      *)
(* daemon's boots and the programs themselves overlap.                     *)
(*                                                                         *)
(* A verb is the list of changes its code makes, in their order.           *)
(***************************************************************************)
EXTENDS Naturals, Sequences, FiniteSets, SequencesExt

CONSTANTS Dir,      \* folders that can be a peer's
          Proc,     \* processes that run verbs
          None,     \* no snapshot
          MaxVerb,  \* bound: verbs run
          MaxEdit   \* bound: edits by the user and kills

HostConfigAssumption == /\ IsFiniteSet(Dir) /\ IsFiniteSet(Proc)
                        /\ MaxVerb \in Nat /\ MaxEdit \in Nat

VARIABLES toml,      \* sections of codex's config, in file order
          settings,  \* entries of each folder's claude settings
          hooks,     \* hook groups of each folder's hooks.json, in order
          mode,      \* approval mode in each folder's profile; "none": no peer
          todo,      \* per process: the changes its verb has yet to make
          snap,      \* per process: the file it has read, or None
          torn,      \* a write replaced a file that had changed since it was read
          killed,    \* a verb was killed half-way
          verbs, edits

files == <<toml, settings, hooks, mode>>
bounds == <<verbs, edits>>
vars == <<toml, settings, hooks, mode, todo, snap, torn, killed, verbs, edits>>

TomlOps == {"trust", "untrust", "seed", "unseed", "mcp", "quiet"}
SettingsOps == {"memory", "approve", "gate", "ungate"}
Groups == {"ours", "users"}
Sections == [kind : {"quiet", "user", "mcp", "headers"}, dir : {"host"}, at : {0}, val : {"set"}]
            \cup [kind : {"projects"}, dir : Dir, at : {0}, val : {"trusted"}]
            \cup [kind : {"hooks"}, dir : Dir, at : 1 .. 3, val : Groups]
Entries == {"memory-off", "ours", "users", "allow", "project-mcp"}

TypeOK == /\ toml \in Seq(Sections)
          /\ settings \in [Dir -> SUBSET Entries]
          /\ hooks \in [Dir -> Seq(Groups)]
          /\ mode \in [Dir -> {"none", "yolo", "gated"}]
          /\ \A p \in Proc : \A i \in 1 .. Len(todo[p]) : todo[p][i].dir \in Dir
          /\ torn \in BOOLEAN /\ killed \in BOOLEAN
          /\ verbs \in 0 .. MaxVerb /\ edits \in 0 .. MaxEdit

Host(kind) == [kind |-> kind, dir |-> "host", at |-> 0, val |-> "set"]
Init == /\ toml = <<Host("user")>>
        /\ settings = [d \in Dir |-> {}] /\ hooks = [d \in Dir |-> <<>>]
        /\ mode = [d \in Dir |-> "none"]
        /\ todo = [p \in Proc |-> <<>>] /\ snap = [p \in Proc |-> None]
        /\ torn = FALSE /\ killed = FALSE /\ verbs = 0 /\ edits = 0

-----------------------------------------------------------------------------
(***************************************************************************)
(* What each change does to the text it has read                           *)
(***************************************************************************)
\* The members of a sequence at these positions, in their order.
Kept(s, positions) ==
  LET upto[i \in 0 .. Len(s)] ==
        IF i = 0 THEN <<>>
        ELSE IF i \in positions THEN Append(upto[i - 1], s[i]) ELSE upto[i - 1]
  IN upto[Len(s)]

Has(text, kind, d) == \E i \in 1 .. Len(text) : text[i].kind = kind /\ text[i].dir = d
Without(text, kind, d) ==
  Kept(text, {k \in 1 .. Len(text) : ~(text[k].kind = kind /\ text[k].dir = d)})

\* Mutant of Trusted: the section is written without a look at the text.
TrustedAnew(text, d) == Append(text, [kind |-> "projects", dir |-> d, at |-> 0, val |-> "trusted"])

\* preTrustCodexCwd
Trusted(text, d) ==
  IF Has(text, "projects", d) THEN text
  ELSE Append(text, [kind |-> "projects", dir |-> d, at |-> 0, val |-> "trusted"])

\* preSeedCodexHooksTrust: a hook's trust is kept under its position, and
\* holds for the text of the hook there; an entry found is corrected.
Seeded(text, d) ==
  LET groups == hooks[d]
      At(i) == {k \in 1 .. Len(text) : text[k].kind = "hooks" /\ text[k].dir = d /\ text[k].at = i}
      Section(i) == [kind |-> "hooks", dir |-> d, at |-> i, val |-> groups[i]]
      kept == [k \in 1 .. Len(text) |->
                 IF \E i \in 1 .. Len(groups) : k \in At(i) THEN Section(text[k].at) ELSE text[k]]
      all == [i \in 1 .. Len(groups) |-> Section(i)]
  IN kept \o Kept(all, {i \in 1 .. Len(groups) : At(i) = {}})

\* writeCodexMcpConfig appends both tables at once, and corrects what is there.
Wired(text) == IF Has(text, "mcp", "host") THEN text
               ELSE text \o <<Host("mcp"), Host("headers")>>

\* ensureCodexUpdateCheckDisabled puts its line first.
Quieted(text) == IF Has(text, "quiet", "host") THEN text ELSE <<Host("quiet")>> \o text

ChangedToml(op, d, text) ==
  CASE op = "trust" -> Trusted(text, d)
    [] op = "untrust" -> Without(text, "projects", d)
    [] op = "seed" -> Seeded(text, d)
    [] op = "unseed" -> Without(text, "hooks", d)
    [] op = "mcp" -> Wired(text)
    [] op = "quiet" -> Quieted(text)

\* applyClaudeLever, ensureClaudeProjectSettings, installClaudeApproval,
\* removeClaudeApproval: what is not iapeer's stays.
ChangedSettings(op, entries) ==
  CASE op = "memory" -> entries \cup {"memory-off"}
    [] op = "approve" -> entries \cup {"project-mcp"}
    [] op = "gate" -> entries \cup {"ours", "allow"}
    [] op = "ungate" -> entries \ {"ours", "allow"}

\* removeCodexApproval on hooks.json: the groups that are not iapeer's stay.
ChangedHooks(groups) == Kept(groups, {i \in 1 .. Len(groups) : groups[i] # "ours"})

Content(op, d) == IF op \in TomlOps THEN toml ELSE IF op \in SettingsOps THEN settings[d] ELSE hooks[d]
Changed(op, d, text) == IF op \in TomlOps THEN ChangedToml(op, d, text)
                        ELSE IF op \in SettingsOps THEN ChangedSettings(op, text)
                        ELSE ChangedHooks(text)

-----------------------------------------------------------------------------
(***************************************************************************)
(* The verbs                                                               *)
(***************************************************************************)
On(d, ops) == [i \in 1 .. Len(ops) |-> [op |-> ops[i], dir |-> d]]

Begin(p, changes) == /\ todo[p] = <<>> /\ verbs < MaxVerb
                     /\ verbs' = verbs + 1
                     /\ todo' = [todo EXCEPT ![p] = changes]
                     /\ UNCHANGED <<snap, torn, killed, edits>>

\* No verb of this folder is under way.
Free(d) == \A p \in Proc : \A i \in 1 .. Len(todo[p]) : todo[p][i].dir # d

\* create: the memory lever and the folder's trust (provisionPeer), then the
\* project's settings, codex's server table and line (initPeer).
Create(p, d) == /\ mode[d] = "none" /\ Free(d)
                /\ Begin(p, On(d, <<"memory", "trust", "approve", "mcp", "quiet">>))
                /\ mode' = [mode EXCEPT ![d] = "yolo"]
                /\ UNCHANGED <<toml, settings, hooks>>

\* setApprovalMode after its profile patch: claude's settings, then codex's
\* trust, hooks.json and the trust of the hooks that stay.
Surfaces(d, m) == <<IF m = "gated" THEN "gate" ELSE "ungate", "unseed", "unhook", "seed">>

SetMode(p, d, m) == /\ mode[d] # "none" /\ Free(d)
                    /\ Begin(p, On(d, Surfaces(d, m)))
                    /\ mode' = [mode EXCEPT ![d] = m]
                    /\ UNCHANGED <<toml, settings, hooks>>

\* prepareLaunch of the codex adapter, at every boot.
Boot(p, d) == /\ mode[d] # "none" /\ hooks[d] # <<>>
              /\ Begin(p, On(d, <<"seed">>))
              /\ UNCHANGED files

\* Mutant of Forgotten: the trust of the folder's hooks is left behind.
ForgottenHalf(d) == On(d, <<"untrust">>)

\* A folder that is no peer's any more loses its trust and its hooks'.
Forgotten(d) == On(d, <<"untrust", "unseed">>)

\* remove --purge: the folder goes, then its trust.
RemovePeer(p, d) == /\ mode[d] # "none" /\ Free(d)
                /\ Begin(p, Forgotten(d))
                /\ mode' = [mode EXCEPT ![d] = "none"]
                /\ hooks' = [hooks EXCEPT ![d] = <<>>]
                /\ settings' = [settings EXCEPT ![d] = {}]
                /\ UNCHANGED toml

\* rename moves the folder with its files, trusts the new one and forgets the old.
Rename(p, d, e) == /\ d # e /\ mode[d] # "none" /\ mode[e] = "none" /\ Free(d) /\ Free(e)
                   /\ Begin(p, On(e, <<"trust">>) \o Forgotten(d) \o On(e, <<"seed">>))
                   /\ mode' = [mode EXCEPT ![e] = mode[d], ![d] = "none"]
                   /\ hooks' = [hooks EXCEPT ![e] = hooks[d], ![d] = <<>>]
                   /\ settings' = [settings EXCEPT ![e] = settings[d], ![d] = {}]
                   /\ UNCHANGED toml

Read(p) == /\ todo[p] # <<>> /\ snap[p] = None
           /\ snap' = [snap EXCEPT ![p] = [text |-> Content(Head(todo[p]).op, Head(todo[p]).dir)]]
           /\ UNCHANGED <<todo, torn, killed>> /\ UNCHANGED files /\ UNCHANGED bounds

\* The file is replaced by the changed copy of what was read, whatever it is
\* by now; a change that is there already writes nothing.
Write(p) ==
  /\ snap[p] # None
  /\ LET op == Head(todo[p]).op  d == Head(todo[p]).dir
         old == snap[p].text     new == Changed(op, d, old)
     IN IF new = old THEN UNCHANGED <<toml, settings, hooks, torn>>
        ELSE /\ torn' = (torn \/ Content(op, d) # old)
             /\ toml' = IF op \in TomlOps THEN new ELSE toml
             /\ settings' = IF op \in SettingsOps THEN [settings EXCEPT ![d] = new] ELSE settings
             /\ hooks' = IF op = "unhook" THEN [hooks EXCEPT ![d] = new] ELSE hooks
  /\ snap' = [snap EXCEPT ![p] = None]
  /\ todo' = [todo EXCEPT ![p] = Tail(@)]
  /\ UNCHANGED <<mode, killed>> /\ UNCHANGED bounds

Kill(p) == /\ todo[p] # <<>> /\ edits < MaxEdit /\ edits' = edits + 1
           /\ todo' = [todo EXCEPT ![p] = <<>>] /\ snap' = [snap EXCEPT ![p] = None]
           /\ killed' = TRUE
           /\ UNCHANGED <<torn, verbs>> /\ UNCHANGED files

\* The user adds hooks of his own; those of older releases are still there.
UserEdit(d, g) == /\ mode[d] # "none" /\ edits < MaxEdit /\ edits' = edits + 1
                  /\ Len(hooks[d]) < 2
                  /\ hooks' = [hooks EXCEPT ![d] = Append(@, g)]
                  /\ settings' = [settings EXCEPT ![d] = @ \cup {"users"}]
                  /\ UNCHANGED <<toml, mode, todo, snap, torn, killed, verbs>>

Next == \/ \E p \in Proc, d \in Dir : \/ Create(p, d) \/ Boot(p, d) \/ RemovePeer(p, d)
                                      \/ \E m \in {"yolo", "gated"} : SetMode(p, d, m)
                                      \/ \E e \in Dir : Rename(p, d, e)
        \/ \E p \in Proc : Read(p) \/ Write(p) \/ Kill(p)
        \/ \E d \in Dir, g \in Groups : UserEdit(d, g)

Spec == Init /\ [][Next]_vars

-----------------------------------------------------------------------------
(***************************************************************************)
(* Properties                                                              *)
(***************************************************************************)
\* codex refuses a config with the same table twice, and no peer of the host
\* would boot: however the verbs and the boots overlap or are cut off, no
\* table of the file is there twice.
NoTableTwice ==
  \A i, j \in 1 .. Len(toml) :
    i # j => <<toml[i].kind, toml[i].dir, toml[i].at>> # <<toml[j].kind, toml[j].dir, toml[j].at>>

\* When no verb was killed and no write fell on a file that had changed under
\* it, then at rest the user's section is there, no folder without a peer is
\* trusted, and claude's settings ask for approval just when the mode says so.
AtRestAgrees ==
  (~torn /\ ~killed /\ \A p \in Proc : todo[p] = <<>>) =>
    /\ Has(toml, "user", "host")
    /\ \A d \in Dir :
         /\ mode[d] = "none" => ~Has(toml, "projects", d) /\ ~Has(toml, "hooks", d)
         /\ mode[d] # "none" => Has(toml, "projects", d)
         /\ ("ours" \in settings[d]) <=> (mode[d] = "gated")
===============================================================================
