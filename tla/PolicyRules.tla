----------------------------- MODULE PolicyRules -----------------------------
(***************************************************************************)
(* The policy engine and the path scopes (policy.py, scope_paths.py), and  *)
(* the checks the executors make again before they act (executor.py,       *)
(* executor_docker.py).  A workspace is a small tree of directories and    *)
(* links on a volume that may fold the case of names; it can change between *)
(* the decision, the check on the run's own tree, the staging of a copy and *)
(* the check on that copy.                                                 *)
(*                                                                         *)
(* A path is a sequence of names; <<>> is the workspace.  Texts are        *)
(* reduced to what a rule tells apart, their form.                         *)
(***************************************************************************)
EXTENDS Naturals, Sequences, FiniteSets

CONSTANTS
    Names,       \* spellings of file names
    SimpleFold,  \* per name: its case folding, character by character
    FullFold,    \* per name: its case folding with expansions
    Trees,       \* the workspaces considered
    Scopes,      \* the task scopes: allowed and blocked paths, permission
    Requests,    \* the actions submitted
    MaxLinks,    \* bound on the links a path follows
    MaxSwaps     \* bound on the changes of the tree

\* The paths of a workspace's entries, an entry, a workspace, and a token of a
\* command (see Commands).
Paths == Seq(Names)
Outside == <<"..">>
Entries == [link : BOOLEAN, to : Paths \cup {Outside}]
IsTree(t) == DOMAIN t \subseteq Paths \ {<<>>} /\ t \in [DOMAIN t -> Entries]
Arguments == [option : {"none", "listed", "unlisted", "-o"},
              form   : {"plain", "nul", "absolute", "dotdot", "overlong", "bare", "addopts"},
              path   : Paths]

\* Names equal without the expansions of a letter are equal with them, as those
\* of str.casefold are.
ASSUME RulesAssumption ==
    /\ {MaxLinks, MaxSwaps} \subseteq Nat /\ {"..", "loop"} \cap Names = {}
    /\ \A m, n \in Names : SimpleFold[m] = SimpleFold[n] => FullFold[m] = FullFold[n]
    /\ \A t \in Trees : IsTree(t)
    /\ \A s \in Scopes : s.allowed \subseteq Paths /\ s.blocked \subseteq Paths
    /\ \A r \in Requests :
          r.path \in Paths /\ (r.kind = "command" => r.tokens \in Seq(Arguments))

VARIABLES
    volume,   \* how the volume compares names: "exact", "simple" or "full"
    tree,     \* the run's workspace
    copy,     \* the staged copy
    case,     \* the scope, the request and the backend
    stage,    \* how far the action has come
    swaps     \* changes of the tree so far

rulesVars == <<volume, tree, copy, case, stage, swaps>>

\* A path leads to Outside when it leaves the workspace, to Loop when it leads
\* nowhere.
Loop == <<"loop">>

Dir == [link |-> FALSE, to |-> <<>>]
LinkTo(path) == [link |-> TRUE, to |-> path]

Take(path, n) == SubSeq(path, 1, n)

-----------------------------------------------------------------------------
(* The volume: what a lookup finds. *)

SameName(vol, m, n) == CASE vol = "exact" -> m = n
                         [] vol = "simple" -> SimpleFold[m] = SimpleFold[n]
                         [] vol = "full" -> FullFold[m] = FullFold[n]

SamePath(vol, p, q) == Len(p) = Len(q) /\ \A i \in DOMAIN p : SameName(vol, p[i], q[i])

EntriesAt(vol, t, path) == {e \in DOMAIN t : Outside # path /\ SamePath(vol, e, path)}

LinksOn(vol, t, path) ==
    {k \in 1 .. Len(path) : \E e \in EntriesAt(vol, t, Take(path, k)) : t[e].link}

FirstOf(links) == CHOOSE k \in links : \A j \in links : k <= j

Below(target, path, k) ==
    IF target = Outside THEN Outside ELSE target \o SubSeq(path, k + 1, Len(path))

\* The link at position k of the path replaced by its target.
Jump(vol, t, path, k) ==
    Below(t[CHOOSE e \in EntriesAt(vol, t, Take(path, k)) : TRUE].to, path, k)

FollowOne(vol, t, path) ==
    LET links == LinksOn(vol, t, path)
    IN IF links = {} THEN path ELSE Jump(vol, t, path, FirstOf(links))

Settled(vol, t, path) == IF LinksOn(vol, t, path) = {} THEN path ELSE Loop

\* Every link followed; what does not exist keeps the spelling it was given.
ResolveOn(vol, t, path) ==
    LET after[n \in 0 .. MaxLinks] ==
          IF n = 0 THEN path
          ELSE LET before == after[n - 1] IN FollowOne(vol, t, before)
    IN Settled(vol, t, after[MaxLinks])
Resolve(t, path) == ResolveOn(volume, t, path)

\* The entry a path reaches, if there is one.
NodeAt(t, target) ==
    IF target \in {Loop, Outside, <<>>} THEN {target} ELSE EntriesAt(volume, t, target)
Node(t, path) == NodeAt(t, Resolve(t, path))

-----------------------------------------------------------------------------
(* Scope matching. *)

\* "apart": one of the two exists and the other does not.
Identity(left, right) ==
    IF Loop \in left \cup right \/ left \cup right = {} THEN "unknown"
    ELSE IF {} \in {left, right} THEN "apart"
    ELSE IF left = right THEN "same" ELSE "different"
SameFile(t, p, q) == Identity(Node(t, p), Node(t, q))

\* Mutant of Folds: an unknown volume is taken for one that keeps case.
FoldsWhenConfirmed(verdict, allowed) == verdict = "folds"

\* An unknown volume folds what is blocked and nothing that is allowed.
Folds(verdict, allowed) ==
    verdict = "folds" \/ (verdict = "unknown" /\ ~allowed)

NameAgrees(name, expected, identity, verdict, allowed) ==
    /\ identity = "apart" => SimpleFold[name] = SimpleFold[expected]
    /\ identity # "different"
    /\ \/ identity = "same" /\ ~allowed
       \/ /\ Folds(verdict, allowed)
          /\ IF allowed THEN SimpleFold[name] = SimpleFold[expected]
             ELSE FullFold[name] = FullFold[expected]

NamesAgree(t, path, prefix, i, verdict, allowed) ==
    \/ path[i] = prefix[i]
    \/ NameAgrees(path[i], prefix[i], SameFile(t, Take(path, i), Take(prefix, i)),
                  verdict, allowed)

PathWithin(t, path, prefix, verdict, allowed) ==
    \/ prefix = <<>>
    \/ ~allowed /\ \E k \in 0 .. Len(path) : SameFile(t, Take(path, k), prefix) = "same"
    \/ /\ Len(path) >= Len(prefix)
       /\ \A i \in DOMAIN prefix : NamesAgree(t, path, prefix, i, verdict, allowed)

Blocked(t, path, blocked, verdict) ==
    \E b \in blocked : PathWithin(t, path, b, verdict, FALSE)

ScopeDenial(t, names, allowed, blocked, verdict) ==
    IF \E p \in names : Blocked(t, p, blocked, verdict) THEN "BLOCKED_PATH"
    ELSE IF \E p \in names : ~\E a \in allowed : PathWithin(t, p, a, verdict, TRUE)
    THEN "PATH_NOT_ALLOWED" ELSE "none"

\* A target is matched by the name requested and by the one resolved.
TargetDenial(t, path, target, allowed, blocked, verdict) ==
    CASE target = Loop -> "MALFORMED_REQUEST"
      [] target = Outside -> "SYMLINK_ESCAPE"
      [] OTHER -> ScopeDenial(t, {path, target}, allowed, blocked, verdict)

PathDenial(t, path, allowed, blocked, verdict) ==
    TargetDenial(t, path, Resolve(t, path), allowed, blocked, verdict)

FormDenial(form) == CASE form = "nul" -> "MALFORMED_REQUEST"
                      [] form = "absolute" -> "PATH_OUTSIDE_WORKSPACE"
                      [] form = "dotdot" -> "PATH_TRAVERSAL"
                      [] form = "overlong" -> "MALFORMED_REQUEST"
                      [] OTHER -> "none"

TextDenial(t, form, path, allowed, blocked, verdict) ==
    IF FormDenial(form) # "none" THEN FormDenial(form)
    ELSE PathDenial(t, path, allowed, blocked, verdict)

-----------------------------------------------------------------------------
(* Commands.  A token is an option, listed for the command or not, or none; *)
(* its form; and the path it holds.  "bare": "-o" without a value of its    *)
(* own; "addopts": a value that sets pytest's addopts.                      *)

\* The tokens the flag check looks at: the value of a bare "-o" is skipped.
LookedAt(tokens) ==
    LET looked[i \in DOMAIN tokens] ==
          i = 1 \/ ~(/\ looked[i - 1] /\ tokens[i - 1].option = "-o"
                     /\ tokens[i - 1].form = "bare")
    IN {i \in DOMAIN tokens : looked[i]}

OverrideAt(tokens, i) ==
    \/ tokens[i].form = "addopts"
    \/ /\ tokens[i].form = "bare" /\ i < Len(tokens)
       /\ tokens[i + 1].option = "none" /\ tokens[i + 1].form = "addopts"

FlagsDenied(tokens) ==
    \E i \in LookedAt(tokens) :
      \/ tokens[i].option = "unlisted"
      \/ tokens[i].option = "-o" /\ OverrideAt(tokens, i)

TokenDenials(t, tokens, blocked, verdict) ==
    {TextDenial(t, tokens[i].form, tokens[i].path, {<<>>}, blocked, verdict) :
       i \in DOMAIN tokens} \ {"none"}

CommandDenied(t, request, blocked, verdict) ==
    \/ request.metacharacter
    \/ ~request.prefixListed
    \/ FlagsDenied(request.tokens)
    \/ TokenDenials(t, request.tokens, blocked, verdict) # {}
    \/ TextDenial(t, request.form, request.path, {<<>>}, blocked, verdict) # "none"

-----------------------------------------------------------------------------
(* The decision and the dispatch. *)

Verdicts == IF volume = "exact" THEN {"exact", "unknown"} ELSE {"folds", "unknown"}

Scope == case.scope
Request == case.request

\* The first five rules: what is asked of whom, before any path is looked at.
Admissible ==
    /\ Request.standing = "ok"
    /\ Request.kind = "command" => case.backend = "docker"

Outcome(verdict) ==
    IF \/ ~Admissible
       \/ IF Request.kind = "command"
          THEN CommandDenied(tree, Request, Scope.blocked, verdict)
          ELSE TextDenial(tree, Request.form, Request.path, Scope.allowed,
                          Scope.blocked, verdict) # "none"
       \/ Scope.permission = "none"
    THEN "DENY"
    ELSE IF Scope.permission = "approval" THEN "HOLD" ELSE "ALLOW"

\* The executors' own look at the target, on the tree they are about to use.
Rechecked(t, verdict) ==
    IF Request.kind = "command"
    THEN /\ PathDenial(t, Request.path, {<<>>}, Scope.blocked, verdict) = "none"
         /\ ~CommandDenied(t, Request, Scope.blocked, verdict)
    ELSE PathDenial(t, Request.path, Scope.allowed, Scope.blocked, verdict) = "none"

\* What staging leaves out: a blocked name, a link onto a blocked target.
Dropped(e, target, verdict) ==
    \E name \in {e} \cup (IF tree[e].link THEN {target} \ {Loop, Outside} ELSE {}) :
      Blocked(tree, name, Scope.blocked, verdict)

Staged(verdict) ==
    LET kept == {e \in DOMAIN tree :
                   \A k \in 1 .. Len(e) : Take(e, k) \in DOMAIN tree
                                             => ~Dropped(Take(e, k), Resolve(tree, Take(e, k)), verdict)}
    IN [e \in kept |-> tree[e]]

RulesInit ==
    /\ volume \in {"exact", "simple", "full"}
    /\ tree \in Trees
    /\ \A e, f \in DOMAIN tree : SamePath(volume, e, f) => e = f
    /\ copy = <<>>
    /\ case \in [scope : Scopes, request : Requests, backend : {"local", "docker"}]
    /\ stage = "asked" /\ swaps = 0

Moves(to) == stage' = to /\ UNCHANGED <<volume, tree, case, swaps>>

\* A held action waits for its review; an approval lets it through.
Decide ==
    /\ stage = "asked"
    /\ \E verdict \in Verdicts :
         Moves(IF Outcome(verdict) = "DENY" THEN "denied" ELSE "let")
    /\ UNCHANGED copy

ExecuteLocally ==
    /\ stage = "let" /\ case.backend = "local"
    /\ \E verdict \in Verdicts :
         Moves(IF Rechecked(tree, verdict) THEN "done" ELSE "refused")
    /\ copy' = tree

CheckBeforeStaging ==
    /\ stage = "let" /\ case.backend = "docker"
    /\ \E verdict \in Verdicts :
         Moves(IF Rechecked(tree, verdict) THEN "checked" ELSE "refused")
    /\ UNCHANGED copy

Stage ==
    /\ stage = "checked"
    /\ \E verdict \in Verdicts : \E staged \in {Staged(verdict)} :
         IF <<>> \in Scope.blocked \/ DOMAIN staged \cap Scope.blocked # {}
         THEN Moves("refused") /\ UNCHANGED copy
         ELSE Moves("staged") /\ copy' = staged

ExecuteStaged ==
    /\ stage = "staged"
    /\ \E verdict \in Verdicts :
         Moves(IF Rechecked(copy, verdict) THEN "done" ELSE "refused")
    /\ UNCHANGED copy

\* The tree with another entry at e; nothing stays below a link.
Replaced(e, entry) ==
    LET below == {f \in DOMAIN tree : Len(f) > Len(e) /\ Take(f, Len(e)) = e}
    IN [f \in DOMAIN tree \ (IF entry.link THEN below ELSE {}) |->
          IF f = e THEN entry ELSE tree[f]]

\* Another action of the run replaces one entry.
Swap ==
    /\ stage \in {"let", "checked"} /\ swaps < MaxSwaps
    /\ \E e \in DOMAIN tree, entry \in {Dir, LinkTo(Outside)} \cup {LinkTo(f) : f \in DOMAIN tree} :
         tree' = Replaced(e, entry)
    /\ swaps' = swaps + 1
    /\ UNCHANGED <<volume, copy, case, stage>>

RulesNext ==
    \/ Decide \/ ExecuteLocally \/ CheckBeforeStaging \/ Stage \/ ExecuteStaged
    \/ Swap

RulesSpec == RulesInit /\ [][RulesNext]_rulesVars

-----------------------------------------------------------------------------
(* Properties. *)

\* What the executed action reaches: the target, or all a command is given.
Reached == {Request.path} \cup
             (IF Request.kind = "command"
              THEN {Request.tokens[i].path : i \in DOMAIN Request.tokens} ELSE {})

UnderName(path, prefix) ==
    Len(path) >= Len(prefix) /\ SamePath(volume, Take(path, Len(prefix)), prefix)

InsideOf(t, path, prefix) ==
    \E k \in 0 .. Len(path) : SameFile(t, Take(path, k), prefix) = "same"

\* pytest reads the token after a bare "-o" as its value, and stops with a
\* usage error when that token is an option or is missing.
OverrideTakesEffect(tokens) ==
    LET bare == {i \in DOMAIN tokens : tokens[i].option = "-o" /\ tokens[i].form = "bare"}
    IN /\ \A i \in bare : i < Len(tokens) /\ tokens[i + 1].option = "none"
       /\ \/ \E i \in DOMAIN tokens : tokens[i].option = "-o" /\ tokens[i].form = "addopts"
          \/ \E i \in bare : tokens[i + 1].form = "addopts"

\* An executed action stays in its scope, in the tree it is executed on and
\* by the volume's own notion of a name, whatever the probe answered and
\* whoever changed the tree since the decision: no target lies outside the
\* workspace, under a blocked name or inside a blocked directory; the target
\* of a file operation lies under an allowed path; a command's options
\* override nothing, and the copy it runs in holds nothing blocked that it
\* could open whatever it was told to open.
EffectInScope ==
    stage = "done" =>
      /\ \A path \in Reached :
           LET target == Resolve(copy, path)
           IN /\ target \notin {Loop, Outside}
              /\ \A b \in Scope.blocked :
                   ~UnderName(target, b) /\ ~InsideOf(copy, target, b)
              /\ Request.kind = "file" => \E a \in Scope.allowed : UnderName(target, a)
      /\ Request.kind = "command" =>
           /\ ~OverrideTakesEffect(Request.tokens)
           /\ \A e \in DOMAIN copy, b \in Scope.blocked : ~UnderName(e, b)

=============================================================================
