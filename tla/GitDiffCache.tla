---------------------------- MODULE GitDiffCache ----------------------------
(***************************************************************************)
(* The diff the viewer's requests are answered from, while the tree        *)
(* changes under the git commands that build it.                           *)
(*                                                                         *)
(* Models packages/server/src/git-diff-cache.ts and the building of its    *)
(* entries in git-diff-service.ts, for one working directory and several   *)
(* comparisons.  A diff is the pair of the versions of the tree its first  *)
(* and its last git command saw.                                           *)
(***************************************************************************)
EXTENDS Integers, FiniteSets, FiniteSetsExt

CONSTANTS
    Requests,     \* requests in flight
    Comparisons,  \* mode and base: what is compared
    MaxEntries,   \* GIT_DIFF_CACHE_MAX_ENTRIES
    MaxChanges,   \* bound: changes of the tree
    MaxAnswers    \* bound: answered requests

VARIABLES
    tree,       \* the version of the working tree
    generation, \* diffCacheGenerationByCwd
    cache,      \* diffCacheByCwd: the diff of each comparison, or None
    builtAt,    \* the order the entries were built in
    build,      \* diffCacheBuilds: the build of each comparison
    asked,      \* [comparison, told] of each request that waits
    told,       \* history: the tree when it was last invalidated
    answer,     \* history: the last answer and what its asker was told of
    answers     \* bound: answers so far

(* What the constants are. *)
ParametersFit ==
    /\ IsFiniteSet(Comparisons)
    /\ {MaxEntries, MaxChanges, MaxAnswers} \subseteq Nat

vars == <<tree, generation, cache, builtAt, build, asked, told, answer, answers>>

None == [first |-> -1, last |-> -1]
NoBuild == [on |-> FALSE, generation |-> 0, first |-> -1]
Nothing == [of |-> None, told |-> 0]
NotAsked == [comparison |-> "none", told |-> 0]

(* pruneDiffCache(): the oldest entries go until the limit is kept. *)
Pruned(c, ages) ==
    LET full == {k \in Comparisons : c[k] # None}
    IN  [k \in Comparisons |->
            IF Cardinality({j \in full : ages[j] > ages[k]}) < MaxEntries
            THEN c[k] ELSE None]

Now == 1 + Max({builtAt[k] : k \in Comparisons})

-----------------------------------------------------------------------------

Change ==
    /\ tree < MaxChanges /\ tree' = tree + 1
    /\ UNCHANGED <<generation, cache, builtAt, build, asked, told, answer, answers>>

(* invalidateGitDiffCache(), called by the coordinator of the directory;   *)
(* at most once for each change, which bounds the generations.             *)
Invalidate ==
    /\ told # tree
    /\ told' = tree
    /\ generation' = generation + 1
    /\ cache' = [k \in Comparisons |-> None]
    /\ UNCHANGED <<tree, builtAt, build, asked, answer, answers>>

(* GIT_CACHE_TTL_MS after it was built. *)
Expire(k) ==
    /\ cache[k] # None
    /\ cache' = [cache EXCEPT ![k] = None]
    /\ UNCHANGED <<tree, generation, builtAt, build, asked, told, answer, answers>>

(* ensureDiffCache(): the entry, or the build under way, or one's own. *)
Ask(r, k) ==
    /\ asked[r] = NotAsked /\ answers < MaxAnswers
    /\ answers' = answers + 1
    /\ IF cache[k] # None
       THEN answer' = [of |-> cache[k], told |-> told] /\ UNCHANGED <<asked, build>>
       ELSE /\ asked' = [asked EXCEPT ![r] = [comparison |-> k, told |-> told]]
            /\ build' = IF build[k].on THEN build
                        ELSE [build EXCEPT ![k] = [NoBuild EXCEPT !.on = TRUE,
                                                       !.generation = generation]]
            /\ UNCHANGED answer
    /\ UNCHANGED <<tree, generation, cache, builtAt, told>>

(* The first of the git commands of buildDiffCache(). *)
BuildReads(k) ==
    /\ build[k].on /\ build[k].first = -1
    /\ build' = [build EXCEPT ![k].first = tree]
    /\ UNCHANGED <<tree, generation, cache, builtAt, asked, told, answer, answers>>

Answered(k, diff) ==
    LET waiting == {r \in Requests : asked[r].comparison = k}
    IN  /\ asked' = [r \in Requests |-> IF r \in waiting THEN NotAsked ELSE asked[r]]
        /\ \E r \in waiting : answer' = [of |-> diff, told |-> asked[r].told]
        /\ build' = [build EXCEPT ![k] = NoBuild]

(* Mutation: what is built is taken as it is, invalidated or not. *)
BuildEndsUnchecked(k) ==
    LET diff == [first |-> build[k].first, last |-> tree]
        ages == [builtAt EXCEPT ![k] = Now] IN
    /\ build[k].on /\ build[k].first # -1
    /\ builtAt' = ages
    /\ cache' = Pruned([cache EXCEPT ![k] = diff], ages)
    /\ Answered(k, diff)
    /\ UNCHANGED <<tree, generation, told, answers>>

(* The last of them: a directory invalidated meanwhile is read again. *)
BuildEnds(k) ==
    LET diff == [first |-> build[k].first, last |-> tree]
        ages == [builtAt EXCEPT ![k] = Now] IN
    /\ build[k].on /\ build[k].first # -1
    /\ IF build[k].generation # generation
       THEN /\ build' = [build EXCEPT ![k].generation = generation, ![k].first = -1]
            /\ UNCHANGED <<cache, builtAt, asked, answer>>
       ELSE /\ builtAt' = ages
            /\ cache' = Pruned([cache EXCEPT ![k] = diff], ages)
            /\ Answered(k, diff)
    /\ UNCHANGED <<tree, generation, told, answers>>

(* A git command fails: nothing is cached, and who waits is told so. *)
BuildFails(k) ==
    /\ build[k].on
    /\ build[k].first = -1 \/ build[k].generation = generation
    /\ asked' = [r \in Requests |-> IF asked[r].comparison = k THEN NotAsked ELSE asked[r]]
    /\ build' = [build EXCEPT ![k] = NoBuild]
    /\ UNCHANGED <<tree, generation, cache, builtAt, told, answer, answers>>

-----------------------------------------------------------------------------

Init ==
    /\ tree = 0 /\ generation = 0 /\ told = 0 /\ answers = 0
    /\ cache = [k \in Comparisons |-> None]
    /\ builtAt = [k \in Comparisons |-> 0]
    /\ build = [k \in Comparisons |-> NoBuild]
    /\ asked = [r \in Requests |-> NotAsked]
    /\ answer = Nothing

Next ==
    \/ Change
    \/ Invalidate
    \/ \E k \in Comparisons : Expire(k)
    \/ \E r \in Requests, k \in Comparisons : Ask(r, k)
    \/ \E k \in Comparisons : BuildReads(k)
    \/ \E k \in Comparisons : BuildEnds(k)
    \/ \E k \in Comparisons : BuildFails(k)

Spec == Init /\ [][Next]_vars

-----------------------------------------------------------------------------
(* Properties *)

(* Every variable has its type; a build that reads has a first version. *)
TypeOK ==
    LET versions == 0 .. MaxChanges
        diffs == [first : versions, last : versions] \union {None} IN
    /\ {tree, told} \subseteq versions /\ generation \in Nat
    /\ answers \in 0 .. MaxAnswers
    /\ cache \in [Comparisons -> diffs] /\ builtAt \in [Comparisons -> Nat]
    /\ build \in [Comparisons -> [on : BOOLEAN, generation : Nat, first : versions \union {-1}]]
    /\ asked \in [Requests -> [comparison : Comparisons \union {"none"}, told : versions]]
    /\ answer \in [of : diffs, told : versions]

(* A request is never answered from before the change it was asked for:    *)
(* the diff was read, from its first command on, after the invalidation    *)
(* that came before the request; and so was every diff that is cached.     *)
DiffIsFresh ==
    /\ (answer.of # None => answer.of.first >= answer.told)
    /\ \A k \in Comparisons : cache[k] # None => cache[k].first >= told
=============================================================================
