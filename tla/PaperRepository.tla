-------------------------- MODULE PaperRepository ---------------------------
(***************************************************************************)
(* src/repo/paper.rs and the trait of src/repo/mod.rs: which version and   *)
(* build a worker gets, and what the addresses it asks for lead to.        *)
(*                                                                         *)
(* The service at papermc.io (external) names a release by two numbers if  *)
(* the third is 0, and knows no address that spells a build behind the     *)
(* version.  An unknown address is answered by an error page.              *)
(***************************************************************************)
EXTENDS Ipc, FiniteSetsExt

\* A semver::Version: major, minor and patch, the mark of a pre-release (one for
\* all of them), and the build or None.
Version == [core : Nat \X Nat \X Nat, pre : BOOLEAN, build : Nat \cup {None}]
Release == [numbers : Seq(Nat), pre : BOOLEAN, builds : SUBSET Nat]

\* The service lists so many releases, and so many builds of each; it spells out
\* the third number of a release unless that is 0.
Listing(releases) ==
    /\ releases \subseteq Release /\ IsFiniteSet(releases)
    /\ \A r \in releases :
          /\ IsFiniteSet(r.builds)
          /\ Len(r.numbers) = 2 \/ (Len(r.numbers) = 3 /\ r.numbers[3] # 0)

VARIABLE published  \* the releases the service lists

\* Ord of semver 0.9, which leaves the build aside.
Before(v, w) ==
    \E i \in 1 .. 3 : v[i] < w[i] /\ \A j \in 1 .. i - 1 : v[j] = w[j]
Older(v, w) == Before(v.core, w.core) \/ (v.core = w.core /\ v.pre /\ ~w.pre)

\* The version as an address spells it: to_string() has the mark and the build.
VersionString(v) ==
    IF v.core[3] = 0
      THEN [numbers |-> SubSeq(v.core, 1, 2), pre |-> FALSE, build |-> None]
      ELSE [numbers |-> v.core, pre |-> v.pre, build |-> v.build]

\* What the service has under an address.
BuildsAt(address) ==
    UNION {r.builds : r \in {s \in published :
                                 /\ s.numbers = address.numbers
                                 /\ s.pre = address.pre
                                 /\ address.build = None}}

\* lenient_semver fills up with zeros; what marks a pre-release is dropped.
Parse(numbers) ==
    [i \in 1 .. 3 |-> IF i <= Len(numbers) THEN numbers[i] ELSE 0]
ListVersions == {Parse(r.numbers) : r \in published}

LatestVersion ==
    [core |-> CHOOSE v \in ListVersions : \A w \in ListVersions : ~Before(v, w),
     pre |-> FALSE, build |-> None]

\* Mutant: the first of the builds listed.
GetLatestArtifactMutant(v) ==
    LET builds == BuildsAt(VersionString(v))
    IN IF builds = {} THEN None ELSE [v EXCEPT !.build = Min(builds)]

\* None stands for an error.
GetLatestArtifact(v) ==
    LET builds == BuildsAt(VersionString(v))
    IN IF builds = {} THEN None ELSE [v EXCEPT !.build = Max(builds)]

GetArtifact(v) ==
    IF v.build = None THEN GetLatestArtifact(v)
    ELSE IF v.build \in BuildsAt(VersionString(v)) THEN v ELSE None

\* PaperArtifact::download_to always spells three numbers and no mark, but the
\* name of the file that is listed for v, and stores whatever page it is sent:
\* TRUE if that is the jar.
FetchesJar(v) ==
    ~v.pre /\ v.build \in BuildsAt([numbers |-> v.core, pre |-> FALSE, build |-> None])
=============================================================================
