--------------------------- MODULE WorkersProofs ----------------------------
(***************************************************************************)
(* What the daemon and Installation need to know of the workers, as        *)
(* lemmas: what a repository returns, the types of what the workers work   *)
(* on, and where each step of a job leads; and what the threads do to the  *)
(* queues, whose elements have no type that is worth stating.              *)
(***************************************************************************)
EXTENDS Workers, FiniteSetTheorems, WellFoundedInduction, TLAPS

(***************************************************************************)
(* Queues.                                                                 *)
(***************************************************************************)

\* A sequence of anything, what is in it, and what a thread does to a queue: it
\* leaves it, takes the head, or appends x.
IsSeq(s) == \E T : s \in Seq(T)
Elems(s) == {s[i] : i \in 1 .. Len(s)}

Moves(s, t, x) ==
    \/ t = s
    \/ s # <<>> /\ t = Tail(s)
    \/ t = Append(s, x)

LEMMA HeadIsElem ==
    ASSUME NEW s, IsSeq(s), s # <<>>
    PROVE  Head(s) \in Elems(s)
<1>1. PICK T : s \in Seq(T)
  BY DEF IsSeq
<1>2. Head(s) = s[1] /\ 1 \in 1 .. Len(s)
  BY <1>1
<1> QED BY <1>2 DEF Elems

LEMMA TailIsSeq ==
    ASSUME NEW s, IsSeq(s), s # <<>>
    PROVE  IsSeq(Tail(s)) /\ Elems(Tail(s)) \subseteq Elems(s)
<1>1. PICK T : s \in Seq(T)
  BY DEF IsSeq
<1>2. Tail(s) \in Seq(T)
  BY <1>1
<1>3. \A i \in 1 .. Len(Tail(s)) : i + 1 \in 1 .. Len(s) /\ Tail(s)[i] = s[i + 1]
  BY <1>1
<1> QED BY <1>2, <1>3 DEF IsSeq, Elems

LEMMA AppendIsSeq ==
    ASSUME NEW s, IsSeq(s), NEW x
    PROVE  IsSeq(Append(s, x)) /\ Elems(Append(s, x)) = Elems(s) \cup {x}
<1>1. PICK T : s \in Seq(T)
  BY DEF IsSeq
<1>2. s \in Seq(T \cup {x})
  BY <1>1
<1>3. Append(s, x) \in Seq(T \cup {x})
  BY <1>2
<1>4. /\ Len(s) \in Nat /\ Len(Append(s, x)) = Len(s) + 1
      /\ \A i \in 1 .. Len(s) : Append(s, x)[i] = s[i]
      /\ Append(s, x)[Len(s) + 1] = x
  BY <1>2
<1>5. \A i \in 1 .. Len(s) + 1 : i \in 1 .. Len(s) \/ i = Len(s) + 1
  BY <1>4
<1>6. \A i \in 1 .. Len(s) : i \in 1 .. Len(s) + 1
  BY <1>4
<1>7. Len(s) + 1 \in 1 .. Len(s) + 1
  BY <1>4
<1> QED BY <1>3, <1>4, <1>5, <1>6, <1>7 DEF IsSeq, Elems

LEMMA MovesIsSeq ==
    ASSUME NEW s, NEW t, NEW x, IsSeq(s), Moves(s, t, x)
    PROVE  IsSeq(t) /\ Elems(t) \subseteq Elems(s) \cup {x}
  BY TailIsSeq, AppendIsSeq DEF Moves

LEMMA EmptyIsSeq == IsSeq(<<>>) /\ Elems(<<>>) = {}
<1>1. <<>> \in Seq({})
  OBVIOUS
<1> QED BY <1>1 DEF IsSeq, Elems

(***************************************************************************)
(* Finite sets.                                                            *)
(***************************************************************************)

\* A finite set has an element that nothing in it comes after.
LEMMA FiniteSetHasTop ==
    ASSUME NEW S, IsFiniteSet(S), S # {}, NEW R,
           \A x \in S : <<x, x>> \notin R,
           \A x, y, z \in S : <<x, y>> \in R /\ <<y, z>> \in R => <<x, z>> \in R
    PROVE  \E m \in S : \A x \in S : <<m, x>> \notin R
<1> DEFINE HasTop(A) == \E m \in A : \A x \in A : <<m, x>> \notin R
           T == {A \in SUBSET S : A # {} /\ ~HasTop(A)}
<1>1. SUFFICES ASSUME S \in T PROVE FALSE
  OBVIOUS
<1>2. IsWellFoundedOn(StrictSubsetOrdering(S), SUBSET S)
  BY FS_StrictSubsetOrderingWellFounded, FS_FiniteSubsetsOfFinite
<1>3. PICK A \in T : \A B \in T : <<B, A>> \notin StrictSubsetOrdering(S)
  <2>1. T \subseteq SUBSET S /\ T # {}
    BY <1>1
  <2> HIDE DEF T
  <2> QED BY <1>2, <2>1, WFMin
<1>4. PICK a : a \in A
  BY <1>3
<1> DEFINE B == {x \in A : <<a, x>> \in R}
<1>5. B # {} /\ a \notin B /\ A \subseteq S
  BY <1>3, <1>4
<1>6. B \notin T
  <2>1. <<B, A>> \in StrictSubsetOrdering(S)
    BY <1>4, <1>5 DEF StrictSubsetOrdering
  <2> QED BY <1>3, <2>1
<1>7. PICK m \in B : \A x \in B : <<m, x>> \notin R
  BY <1>5, <1>6
<1>8. \A x \in A : <<m, x>> \notin R
  BY <1>4, <1>5, <1>7
<1> QED BY <1>3, <1>7, <1>8

LEMMA MaxIsGreatest ==
    ASSUME NEW S \in SUBSET Nat, IsFiniteSet(S), S # {}
    PROVE  Max(S) \in S /\ \A x \in S : Max(S) >= x
<1> DEFINE R == {p \in Nat \X Nat : p[1] < p[2]}
<1>1. \A x, y \in S : <<x, y>> \in R <=> x < y
  OBVIOUS
<1>2. /\ \A x \in S : <<x, x>> \notin R
      /\ \A x, y, z \in S : <<x, y>> \in R /\ <<y, z>> \in R => <<x, z>> \in R
  BY <1>1
<1>3. \E m \in S : \A x \in S : <<m, x>> \notin R
  <2> HIDE DEF R
  <2> QED BY <1>2, FiniteSetHasTop
<1>4. \E m \in S : \A x \in S : ~(m < x)
  BY <1>1, <1>3
<1>5. \E m \in S : \A x \in S : m >= x
  BY <1>4
<1> QED BY <1>5 DEF Max

(***************************************************************************)
(* The repository.                                                         *)
(***************************************************************************)

Core == Nat \X Nat \X Nat

LEMMA BeforeIs ==
    ASSUME NEW v \in Core, NEW w \in Core
    PROVE  Before(v, w) <=> \/ v[1] < w[1]
                            \/ v[1] = w[1] /\ v[2] < w[2]
                            \/ v[1] = w[1] /\ v[2] = w[2] /\ v[3] < w[3]
<1>1. 1 .. 3 = {1, 2, 3} /\ 1 .. 1 - 1 = {} /\ 1 .. 2 - 1 = {1} /\ 1 .. 3 - 1 = {1, 2}
  OBVIOUS
<1> QED BY <1>1 DEF Before

LEMMA BeforeIsOrder ==
    /\ \A v \in Core : ~Before(v, v)
    /\ \A v, w, x \in Core : Before(v, w) /\ Before(w, x) => Before(v, x)
    /\ \A v, w \in Core : Before(v, w) \/ Before(w, v) \/ v = w
<1>1. \A v \in Core : v = <<v[1], v[2], v[3]>> /\ v[1] \in Nat /\ v[2] \in Nat /\ v[3] \in Nat
  BY DEF Core
<1>2. \A v \in Core : ~Before(v, v)
  BY <1>1, BeforeIs
<1>3. \A v, w, x \in Core : Before(v, w) /\ Before(w, x) => Before(v, x)
  BY <1>1, BeforeIs
<1>4. \A v, w \in Core : Before(v, w) \/ Before(w, v) \/ v = w
  BY <1>1, BeforeIs
<1> QED BY <1>2, <1>3, <1>4

LEMMA ParseIsCore ==
    ASSUME NEW numbers \in Seq(Nat)
    PROVE  Parse(numbers) \in Core
<1> DEFINE p == Parse(numbers)
<1>1. \A i \in 1 .. 3 : p[i] \in Nat
  BY DEF Parse
<1>2. p = <<p[1], p[2], p[3]>>
  BY DEF Parse
<1>3. p[1] \in Nat /\ p[2] \in Nat /\ p[3] \in Nat
  BY <1>1
<1> QED BY <1>2, <1>3 DEF Core

LEMMA ListVersionsIs ==
    ASSUME Listing(published)
    PROVE  ListVersions \subseteq Core /\ IsFiniteSet(ListVersions)
<1>1. ListVersions \subseteq Core
  BY ParseIsCore DEF Listing, ListVersions, Release
<1>2. [r \in published |-> Parse(r.numbers)] \in Surjection(published, ListVersions)
  BY DEF Surjection, ListVersions
<1>3. IsFiniteSet(ListVersions)
  BY <1>2, FS_Surjection DEF Listing
<1> QED BY <1>1, <1>3

LEMMA BuildsAtIs ==
    ASSUME Listing(published), NEW address
    PROVE  BuildsAt(address) \subseteq Nat /\ IsFiniteSet(BuildsAt(address))
<1> DEFINE found == {s \in published : /\ s.numbers = address.numbers
                                      /\ s.pre = address.pre
                                      /\ address.build = None}
           sets == {r.builds : r \in found}
<1>1. IsFiniteSet(found)
  BY FS_Subset DEF Listing
<1>2. [r \in found |-> r.builds] \in Surjection(found, sets)
  BY DEF Surjection
<1>3. IsFiniteSet(sets)
  BY <1>1, <1>2, FS_Surjection
<1>4. \A T \in sets : IsFiniteSet(T) /\ T \subseteq Nat
  BY DEF Listing, Release
<1>5. BuildsAt(address) = UNION sets
  BY DEF BuildsAt
<1>6. IsFiniteSet(UNION sets)
  <2> HIDE DEF sets
  <2> QED BY <1>3, <1>4, FS_UNION
<1> QED BY <1>4, <1>5, <1>6

\* The newest version is listed, and none that is listed comes after it.
LEMMA LatestIsNewest ==
    ASSUME Listing(published), published # {}
    PROVE  /\ LatestVersion \in Version /\ LatestVersion.build = None
           /\ LatestVersion.core \in ListVersions
           /\ \A w \in ListVersions : ~Before(LatestVersion.core, w)
<1> DEFINE R == {p \in Core \X Core : Before(p[1], p[2])}
<1>1. ListVersions \subseteq Core /\ IsFiniteSet(ListVersions) /\ ListVersions # {}
  BY ListVersionsIs DEF ListVersions
<1>2. \A x, y \in ListVersions : <<x, y>> \in R <=> Before(x, y)
  BY <1>1
<1>3. /\ \A x \in ListVersions : <<x, x>> \notin R
      /\ \A x, y, z \in ListVersions :
             <<x, y>> \in R /\ <<y, z>> \in R => <<x, z>> \in R
  BY <1>1, <1>2, BeforeIsOrder
<1>4. \E m \in ListVersions : \A x \in ListVersions : <<m, x>> \notin R
  <2> HIDE DEF R
  <2> QED BY <1>1, <1>3, FiniteSetHasTop
<1>5. \E m \in ListVersions : \A x \in ListVersions : ~Before(m, x)
  BY <1>2, <1>4
<1>6. /\ LatestVersion.core \in ListVersions /\ LatestVersion.build = None
      /\ \A w \in ListVersions : ~Before(LatestVersion.core, w)
  BY <1>5 DEF LatestVersion
<1>7. LatestVersion \in Version
  BY <1>1, <1>6 DEF LatestVersion, Version, Core
<1> QED BY <1>6, <1>7

\* The artifact of a version is of that version, with its newest build.
LEMMA LatestArtifactIs ==
    ASSUME Listing(published), NEW v \in Version, GetLatestArtifact(v) # None
    PROVE  LET t == GetLatestArtifact(v)
               builds == BuildsAt(VersionString(v))
           IN /\ t \in Version /\ t.core = v.core /\ t.pre = v.pre /\ t.build \in Nat
              /\ t.build \in builds /\ \A b \in builds : b <= t.build
<1> DEFINE t == GetLatestArtifact(v)
           builds == BuildsAt(VersionString(v))
<1>1. builds \subseteq Nat /\ IsFiniteSet(builds)
  BY BuildsAtIs
<1>2. builds # {} /\ t = [v EXCEPT !.build = Max(builds)]
  BY DEF GetLatestArtifact
<1>3. Max(builds) \in builds /\ \A b \in builds : Max(builds) >= b
  <2> HIDE DEF builds
  <2> QED BY <1>1, <1>2, MaxIsGreatest
<1> HIDE DEF builds, t
<1>4. t.core = v.core /\ t.pre = v.pre /\ t.build = Max(builds) /\ t \in Version
  BY <1>1, <1>2, <1>3 DEF Version
<1>5. t.build \in builds /\ t.build \in Nat /\ \A b \in builds : b <= t.build
  BY <1>1, <1>3, <1>4
<1>6. /\ t \in Version /\ t.core = v.core /\ t.pre = v.pre /\ t.build \in Nat
      /\ t.build \in builds /\ \A b \in builds : b <= t.build
  BY <1>4, <1>5
<1> QED BY <1>6 DEF t, builds

\* What a job is given is of the version it was asked for, or of the newest.
LEMMA ArtifactIs ==
    ASSUME Listing(published), NEW j \in DOMAIN jobs, jobs[j] \in Job, Artifact(j) # None
    PROVE  /\ Artifact(j) \in Version /\ Artifact(j).build \in Nat
           /\ jobs[j].asked = None => /\ published # {}
                                     /\ Artifact(j) = GetLatestArtifact(LatestVersion)
           /\ jobs[j].asked # None => /\ jobs[j].asked \in Version
                                     /\ Artifact(j).core = jobs[j].asked.core
<1>1. CASE jobs[j].asked = None
  <2>1. Artifact(j) = GetLatestArtifact(LatestVersion)
    BY <1>1 DEF Artifact
  <2>2. published # {}
    <3>1. BuildsAt(VersionString(LatestVersion)) # {}
      BY <2>1 DEF GetLatestArtifact
    <3> QED BY <3>1 DEF BuildsAt
  <2> QED BY <1>1, <2>1, <2>2, LatestIsNewest, LatestArtifactIs
<1>2. CASE jobs[j].asked # None
  <2> DEFINE v == jobs[j].asked
  <2>1. v \in Version /\ Artifact(j) = GetArtifact(v)
    BY <1>2 DEF Artifact, Job
  <2>2. CASE v.build = None
    BY <1>2, <2>1, <2>2, LatestArtifactIs DEF GetArtifact
  <2>3. CASE v.build # None
    BY <1>2, <2>1, <2>3 DEF GetArtifact, Version
  <2> QED BY <2>2, <2>3
<1> QED BY <1>1, <1>2

(***************************************************************************)
(* The types of what the jobs work on.  From "mkdir" on a job has a unit   *)
(* file, and from "download" on it knows what it fetches.                  *)
(***************************************************************************)

WithFile == Busy \ {"look", "failing"}
WithTarget == {"download", "copy", "copied", "patch", "write", "fill", "add", "complete"}
GoodRow(x) ==
    /\ x \in Job
    /\ x.at \in WithFile => x.unit_file \in Files
    /\ x.at \in WithTarget => x.target \in Version
    /\ x.kind = "update" => x.current \in Version

WorkersInv == WorkersTypeOK /\ \A j \in DOMAIN jobs : GoodRow(jobs[j])

\* The row of a job after a step of it.
Stepped(x, step, t) == [x EXCEPT !.at = step, !.target = t]
\* Where a step may lead, unless it fails.
NextAt ==
    {<<"look", "mkdir">>, <<"mkdir", "made">>, <<"made", "eula">>, <<"made", "lookup">>,
     <<"eula", "accepted">>, <<"accepted", "lookup">>, <<"check", "lookup">>,
     <<"lookup", "download">>, <<"download", "copy">>, <<"copy", "copied">>,
     <<"copied", "patch">>, <<"patch", "write">>, <<"write", "fill">>, <<"fill", "add">>,
     <<"add", "complete">>, <<"complete", "done">>, <<"failing", "failed">>}
\* The steps that only send cannot fail.
Sending == {"made", "accepted", "copied", "check", "add", "complete", "failing"}
Takes(j, step, t) ==
    /\ jobs' = [jobs EXCEPT ![j] = Stepped(jobs[j], step, t)]
    /\ jobs[j].at \in Busy
    /\ \/ <<jobs[j].at, step>> \in NextAt
       \/ /\ \/ step = "failing" /\ jobs[j].at \notin Sending
             \/ step = "panicked" /\ jobs[j].at \in {"lookup", "download", "patch"}
          /\ UNCHANGED <<eventQueue, queue, dirs, files>>
    /\ jobs[j].at = "look" /\ step = "mkdir"
          => jobs[j].unit_file # None /\ jobs[j].path \notin DOMAIN dirs
    /\ IF step = "download" THEN /\ t = Artifact(j) /\ t # None
                                 /\ jobs[j].kind = "update" => ~NoBuild(j) /\ ~UpToDate(j)
                            ELSE t = jobs[j].target

LEMMA GoesToAt ==
    ASSUME WorkersInv, NEW j \in DOMAIN jobs, NEW step, GoesTo(j, step)
    PROVE  jobs'[j].at = step
<1>1. PICK x \in Job : x = jobs[j]
  BY DEF WorkersInv, GoodRow
<1>2. jobs'[j] = [x EXCEPT !.at = step]
  BY <1>1 DEF GoesTo
<1> QED BY <1>2 DEF Job

LEMMA StepIsTaken ==
    ASSUME WorkersInv, NEW j \in DOMAIN jobs, JobStep(j)
    PROVE  \E step, t : Takes(j, step, t)
<1> DEFINE x == jobs[j]
<1>1. x \in Job
  BY DEF WorkersInv, GoodRow
<1>2. \A step : [x EXCEPT !.at = step] = Stepped(x, step, x.target)
  BY <1>1 DEF Job, Stepped
<1>3. \A step : GoesTo(j, step) <=> jobs' = [jobs EXCEPT ![j] = Stepped(x, step, x.target)]
  BY <1>2 DEF GoesTo
<1>4. ASSUME NEW step, GoesTo(j, step), <<x.at, step>> \in NextAt, step # "download",
             x.at = "look" => x.unit_file # None /\ x.path \notin DOMAIN dirs
      PROVE  Takes(j, step, x.target)
  BY <1>3, <1>4 DEF Takes, NextAt, Busy
<1>5. CASE Lookup(j) /\ ~Fails(j) /\ ~Panics(j)
  <2>1. /\ jobs' = [jobs EXCEPT ![j].target = Artifact(j), ![j].at = "download"]
        /\ Artifact(j) # None /\ x.at = "lookup"
        /\ x.kind = "update" => ~NoBuild(j) /\ ~UpToDate(j)
    BY <1>5 DEF Lookup, At
  <2>2. PICK t : t = Artifact(j)
    OBVIOUS
  <2>3. jobs' = [jobs EXCEPT ![j] = Stepped(x, "download", t)]
    BY <2>1, <2>2 DEF Stepped
  <2>4. Takes(j, "download", t)
    BY <2>1, <2>2, <2>3 DEF Takes, NextAt, Busy
  <2> QED BY <2>4
<1>6. CASE Fails(j) \/ Panics(j)
  <2>1. PICK step \in {"failing", "panicked"} :
            GoesTo(j, step) /\ UNCHANGED <<eventQueue, queue, dirs, files>>
    BY <1>6 DEF Fails, Panics, Nothing
  <2>2. x.at \in Busy
    BY DEF JobStep, At, Busy, Look, MakeDir, AcceptEula, SayProgress, CheckForUpdate, Lookup,
       OpenJar, CopyJar, Patch, TruncateUnitFile, FillUnitFile, SendAdd, SayHowItEnded
  <2>3. jobs'[j].at = step
    BY <2>1, GoesToAt
  <2>4. x.at \notin Sending
    <3>1. CASE x.at \in Sending
      <4>1. SayProgress(j) \/ CheckForUpdate(j) \/ SendAdd(j) \/ SayHowItEnded(j)
        BY <3>1 DEF Sending, JobStep, At, Look, MakeDir, AcceptEula, Lookup, OpenJar, CopyJar,
           Patch, TruncateUnitFile, FillUnitFile
      <4>2. \E s \in {"eula", "lookup", "patch", "complete", "done", "failed"} : GoesTo(j, s)
        BY <4>1 DEF SayProgress, CheckForUpdate, SendAdd, SayHowItEnded, Reports
      <4> QED BY <2>1, <2>3, <4>2, GoesToAt
    <3> QED BY <3>1
  <2>5. step = "panicked" => x.at \in {"lookup", "download", "patch"}
    <3>1. CASE step = "panicked" /\ x.at \notin {"lookup", "download", "patch"}
      <4>1. \/ Look(j) \/ MakeDir(j) \/ AcceptEula(j) \/ SayProgress(j)
            \/ CheckForUpdate(j) \/ CopyJar(j)
            \/ TruncateUnitFile(j) \/ FillUnitFile(j) \/ SendAdd(j) \/ SayHowItEnded(j)
        BY <3>1 DEF JobStep, At, Lookup, OpenJar, Patch
      <4>2. \E s \in {"mkdir", "made", "eula", "accepted", "lookup", "copied", "patch",
                      "fill", "add", "complete", "done", "failed", "failing"} : GoesTo(j, s)
        BY <4>1 DEF Look, MakeDir, AcceptEula, SayProgress, CheckForUpdate, CopyJar, TruncateUnitFile,
           FillUnitFile, SendAdd, SayHowItEnded, Reports, Fails
      <4> QED BY <2>3, <3>1, <4>2, GoesToAt
    <3> QED BY <3>1
  <2>6. Takes(j, step, x.target)
    BY <1>3, <2>1, <2>2, <2>4, <2>5 DEF Takes
  <2> QED BY <2>6
<1>7. CASE ~Lookup(j) /\ ~Fails(j) /\ ~Panics(j)
  <2>1. \E step : GoesTo(j, step) /\ <<x.at, step>> \in NextAt /\ step # "download"
                   /\ (x.at = "look" => x.unit_file # None /\ x.path \notin DOMAIN dirs)
    BY <1>7 DEF JobStep, At, Busy, Look, MakeDir, AcceptEula, SayProgress, CheckForUpdate, OpenJar,
         CopyJar, Patch, TruncateUnitFile, FillUnitFile, SendAdd, SayHowItEnded, Reports, NextAt
  <2> QED BY <1>4, <2>1
<1> QED BY <1>5, <1>6, <1>7 DEF JobStep

LEMMA SteppedIs ==
    ASSUME NEW x \in Job, NEW step, NEW t
    PROVE  LET r == Stepped(x, step, t)
           IN /\ r.at = step /\ r.target = t /\ r.kind = x.kind /\ r.unit = x.unit
              /\ r.type = x.type /\ r.path = x.path /\ r.unit_file = x.unit_file
              /\ r.eula = x.eula /\ r.asked = x.asked /\ r.current = x.current
              /\ step \in Busy \cup {"done", "failed", "panicked", "dead"}
                    /\ t \in Version \cup {None} => r \in Job
  BY DEF Stepped, Job

LEMMA TakesGoodRow ==
    ASSUME WorkersInv, NEW j \in DOMAIN jobs, NEW step, NEW t, Takes(j, step, t)
    PROVE  GoodRow(Stepped(jobs[j], step, t))
<1> DEFINE x == jobs[j]
           r == Stepped(x, step, t)
<1>1. GoodRow(x) /\ x \in Job
  BY DEF WorkersInv, GoodRow
<1>2. step \in Busy \cup {"done", "failed", "panicked", "dead"}
  BY DEF Takes, NextAt, Busy
<1>3. t \in Version \cup {None} /\ (step \in WithTarget => t \in Version)
  <2>1. CASE step = "download"
    BY <1>1, <2>1, ArtifactIs DEF Takes, WorkersInv, WorkersTypeOK
  <2>2. CASE step # "download"
    <3>1. t = x.target /\ x.target \in Version \cup {None}
      BY <1>1, <2>2 DEF Takes, Job
    <3>2. step \in WithTarget => x.at \in WithTarget
      BY <2>2 DEF Takes, WithTarget, NextAt
    <3> QED BY <1>1, <3>1, <3>2 DEF GoodRow
  <2> QED BY <2>1, <2>2
<1>4. step \in WithFile => x.unit_file \in Files
  <2>1. CASE x.at = "look"
    BY <1>1, <2>1 DEF Takes, NextAt, WithFile, Busy, Job
  <2>2. CASE x.at # "look"
    <3>1. step \in WithFile => x.at \in WithFile
      BY <2>2 DEF Takes, NextAt, WithFile, Busy
    <3> QED BY <1>1, <3>1 DEF GoodRow
  <2> QED BY <2>1, <2>2
<1>5. r \in Job /\ r.at = step /\ r.target = t /\ r.kind = x.kind
      /\ r.unit_file = x.unit_file /\ r.current = x.current
  BY <1>1, <1>2, <1>3, SteppedIs
<1> QED BY <1>1, <1>3, <1>4, <1>5 DEF GoodRow

LEMMA JobsAreRows ==
    ASSUME WorkersInv
    PROVE  Len(jobs) \in Nat /\ DOMAIN jobs = 1 .. Len(jobs)
  BY DEF WorkersInv, WorkersTypeOK

\* The rows after a step of job j.
LEMMA TakesRows ==
    ASSUME WorkersInv, NEW j \in DOMAIN jobs, NEW step, NEW t, Takes(j, step, t)
    PROVE  /\ jobs' \in Seq(Job) /\ Len(jobs') = Len(jobs) /\ DOMAIN jobs' = DOMAIN jobs
           /\ \A i \in DOMAIN jobs : i # j => jobs'[i] = jobs[i]
           /\ jobs'[j] = Stepped(jobs[j], step, t)
           /\ \A i \in DOMAIN jobs : GoodRow(jobs'[i])
<1> DEFINE r == Stepped(jobs[j], step, t)
<1>1. GoodRow(r) /\ r \in Job
  BY TakesGoodRow DEF GoodRow
<1>2. jobs \in Seq(Job) /\ jobs' = [jobs EXCEPT ![j] = r]
  BY DEF WorkersInv, WorkersTypeOK, Takes
<1> HIDE DEF r
<1>3. /\ jobs' \in Seq(Job) /\ Len(jobs') = Len(jobs) /\ DOMAIN jobs' = DOMAIN jobs
      /\ \A i \in DOMAIN jobs : i # j => jobs'[i] = jobs[i]
      /\ jobs'[j] = r
  BY <1>1, <1>2
<1>4. \A i \in DOMAIN jobs : GoodRow(jobs'[i])
  BY <1>1, <1>3 DEF WorkersInv
<1> QED BY <1>3, <1>4 DEF r

LEMMA StepKeepsDirs ==
    ASSUME WorkersInv, NEW j \in DOMAIN jobs, JobStep(j)
    PROVE  DOMAIN dirs' \subseteq Dirs /\ \A d \in DOMAIN dirs' : dirs'[d] \in Directory
<1> DEFINE p == jobs[j].path
           x == jobs[j]
<1>1. p \in Dirs /\ x \in Job /\ GoodRow(x)
  BY DEF WorkersInv, GoodRow, Job
<1>2. DOMAIN dirs \subseteq Dirs /\ \A d \in DOMAIN dirs : dirs[d] \in Directory
  BY DEF WorkersInv, WorkersTypeOK
<1>3. ASSUME MakeDir(j), ~UNCHANGED dirs
      PROVE  DOMAIN dirs' \subseteq Dirs /\ \A d \in DOMAIN dirs' : dirs'[d] \in Directory
  <2> DEFINE new == [eula |-> FALSE, whole |-> {}, partial |-> {}]
  <2>1. new \in Directory
    BY DEF Directory
  <2>2. dirs' = [d \in DOMAIN dirs \cup {p} |-> IF d \in DOMAIN dirs THEN dirs[d] ELSE new]
    BY <1>3 DEF MakeDir, Fails, Nothing, Created
  <2> HIDE DEF new
  <2> QED BY <1>1, <1>2, <2>1, <2>2
<1>4. ASSUME AcceptEula(j) \/ OpenJar(j) \/ CopyJar(j), ~UNCHANGED dirs
      PROVE  DOMAIN dirs' = DOMAIN dirs /\ \A d \in DOMAIN dirs : dirs'[d] \in Directory
  <2>1. CASE p \notin DOMAIN dirs
    BY <1>2, <1>4, <2>1 DEF AcceptEula, OpenJar, CopyJar, Fails, Panics, Nothing
  <2> SUFFICES ASSUME p \in DOMAIN dirs,
                      \A y \in Directory : dirs' # [dirs EXCEPT ![p] = y]
               PROVE  FALSE
    BY <1>2, <2>1
  <2>2. dirs[p] \in Directory
    BY <1>2
  <2>3. CASE AcceptEula(j)
    <3>1. dirs' = [dirs EXCEPT ![p] = [dirs[p] EXCEPT !.eula = TRUE]]
      BY <1>4, <2>3 DEF AcceptEula, Fails, Nothing
    <3> QED BY <2>2, <3>1 DEF Directory
  <2>4. CASE OpenJar(j)
    <3>1. PICK t \in Version : t = x.target
      BY <1>1, <2>4 DEF OpenJar, At, GoodRow, WithTarget
    <3>2. dirs' = [dirs EXCEPT ![p] = [dirs[p] EXCEPT !.whole = @ \ {t},
                                                      !.partial = @ \cup {t}]]
      BY <1>4, <2>4, <3>1 DEF OpenJar, Fails, Panics, Nothing
    <3> QED BY <2>2, <3>1, <3>2 DEF Directory
  <2>5. CASE CopyJar(j)
    <3>1. PICK t \in Version : t = x.target
      BY <1>1, <2>5 DEF CopyJar, At, GoodRow, WithTarget
    <3>2. dirs' = [dirs EXCEPT ![p] = [dirs[p] EXCEPT !.whole = @ \cup {t},
                                                      !.partial = @ \ {t}]]
      BY <1>4, <2>5, <3>1 DEF CopyJar, Fails, Nothing
    <3> QED BY <2>2, <3>1, <3>2 DEF Directory
  <2> QED BY <1>4, <2>3, <2>4, <2>5
<1>5. UNCHANGED dirs \/ MakeDir(j) \/ AcceptEula(j) \/ OpenJar(j) \/ CopyJar(j)
  BY DEF JobStep, Look, SayProgress, CheckForUpdate, Lookup, Patch, TruncateUnitFile, FillUnitFile,
     SendAdd, SayHowItEnded, Fails, Panics, Nothing
<1> QED BY <1>2, <1>3, <1>4, <1>5

LEMMA ResultIsConfig ==
    ASSUME WorkersInv, NEW j \in DOMAIN jobs, jobs[j].at \in {"write", "fill", "add", "complete"}
    PROVE  Result(j) \in Config /\ Saved(j) \in UnitFile /\ jobs[j].unit_file \in Files
<1>1. jobs[j] \in Job /\ jobs[j].unit_file \in Files /\ jobs[j].target \in Version
  BY DEF WorkersInv, GoodRow, WithFile, WithTarget, Busy
<1> QED BY <1>1 DEF Result, Saved, AsFile, Config, UnitFile, Job

LEMMA StepKeepsFiles ==
    ASSUME WorkersInv, NEW j \in DOMAIN jobs, JobStep(j)
    PROVE  files' \in [Files -> UnitFile \cup {None, Broken}]
<1>1. files \in [Files -> UnitFile \cup {None, Broken}]
  BY DEF WorkersInv, WorkersTypeOK
<1>2. CASE TruncateUnitFile(j)
  BY <1>1, <1>2 DEF TruncateUnitFile, Fails, Nothing
<1>3. CASE FillUnitFile(j)
  <2>1. Saved(j) \in UnitFile
    BY <1>3, ResultIsConfig DEF FillUnitFile, At
  <2> QED BY <1>1, <1>3, <2>1 DEF FillUnitFile, Fails, Nothing
<1>4. UNCHANGED files \/ TruncateUnitFile(j) \/ FillUnitFile(j)
  BY DEF JobStep, Look, MakeDir, AcceptEula, SayProgress, CheckForUpdate, Lookup, OpenJar, CopyJar,
     Patch, SendAdd, SayHowItEnded, Fails, Panics, Nothing
<1> QED BY <1>1, <1>2, <1>3, <1>4

\* What a job raises and hands over.
LEMMA StepSends ==
    ASSUME WorkersInv, NEW j \in DOMAIN jobs, JobStep(j)
    PROVE  /\ \/ UNCHANGED queue
              \/ \E m \in AddServerUnitEvents : queue' = Append(queue, m)
           /\ \/ UNCHANGED eventQueue
              \/ \E type \in ServerEventType :
                    eventQueue' = Append(eventQueue, JobEvent(type, jobs[j].unit, j))
<1>1. UNCHANGED queue \/ SendAdd(j)
  BY DEF JobStep, Look, MakeDir, AcceptEula, SayProgress, CheckForUpdate, Lookup, OpenJar, CopyJar,
     Patch, TruncateUnitFile, FillUnitFile, SayHowItEnded, Fails, Panics, Nothing, Reports
<1>2. ASSUME SendAdd(j)
      PROVE  \E m \in AddServerUnitEvents : queue' = Append(queue, m)
  <2>1. Result(j) \in Config /\ jobs[j].unit \in Units
    BY <1>2, ResultIsConfig DEF SendAdd, At, WorkersInv, GoodRow, Job
  <2>2. AddServerUnitEvent(jobs[j].unit, Result(j)) \in AddServerUnitEvents
    BY <2>1 DEF AddServerUnitEvent, AddServerUnitEvents
  <2> QED BY <1>2, <2>2 DEF SendAdd
<1>3. UNCHANGED eventQueue \/ \E type \in ServerEventType : Raises(j, type)
  BY DEF JobStep, Look, MakeDir, AcceptEula, SayProgress, CheckForUpdate, Lookup, OpenJar, CopyJar,
     Patch, TruncateUnitFile, FillUnitFile, SendAdd, SayHowItEnded, Fails, Panics, Nothing, Reports,
     ServerEventType, CompleteEvent, FailedEvent
<1> QED BY <1>1, <1>2, <1>3 DEF Raises

LEMMA StepKeepsTypes ==
    ASSUME WorkersInv, NEW j \in DOMAIN jobs, JobStep(j)
    PROVE  WorkersInv' /\ Len(jobs') = Len(jobs)
<1>1. PICK step, t : Takes(j, step, t)
  BY StepIsTaken
<1>2. jobs' \in Seq(Job) /\ DOMAIN jobs' = DOMAIN jobs /\ Len(jobs') = Len(jobs)
      /\ \A i \in DOMAIN jobs : GoodRow(jobs'[i])
  BY <1>1, TakesRows
<1>3. UNCHANGED <<published, configs>>
  BY DEF JobStep
<1> QED BY <1>2, <1>3, StepKeepsDirs, StepKeepsFiles DEF WorkersInv, WorkersTypeOK, Listing

\* The daemon thread: a job is spawned, a unit is taken over.
LEMMA NewJobIsGood ==
    ASSUME WorkersInv, NEW cmd \in WorkerCmd,
           cmd.kind = "UpdateServer" => cmd.unit_id \in DOMAIN configs
    PROVE  GoodRow(NewJob(cmd)) /\ NewJob(cmd).target = None /\ NewJob(cmd).at \in Busy
<1>1. CASE cmd.kind = "InstallServer"
  BY <1>1 DEF NewJob, WorkerCmd, GoodRow, Job, Busy, WithFile, WithTarget
<1>2. CASE cmd.kind = "UpdateServer"
  <2>1. PICK c \in Config : c = configs[cmd.unit_id]
    BY <1>2 DEF WorkersInv, WorkersTypeOK
  <2>2. NewJob(cmd) = [kind |-> "update", unit |-> cmd.unit_id, type |-> "paper",
            path |-> c.path, unit_file |-> c.unit_file, eula |-> FALSE,
            asked |-> cmd.server_version, current |-> c.version, target |-> None,
            at |-> "check"]
    BY <1>2, <2>1 DEF NewJob
  <2>3. cmd.unit_id \in Units /\ cmd.server_version \in Version \cup {None}
    BY <1>2 DEF WorkerCmd
  <2>4. c.path \in Dirs /\ c.unit_file \in Files /\ c.version \in Version
    BY <2>1 DEF Config
  <2> QED BY <2>2, <2>3, <2>4 DEF GoodRow, Job, Busy, WithFile, WithTarget
<1> QED BY <1>1, <1>2 DEF WorkerCmd

LEMMA SpawnedRows ==
    ASSUME WorkersInv, NEW cmd, Spawned(cmd), GoodRow(NewJob(cmd))
    PROVE  /\ jobs' \in Seq(Job) /\ Len(jobs') = Len(jobs) + 1
           /\ DOMAIN jobs' = DOMAIN jobs \cup {Len(jobs) + 1} /\ Len(jobs) + 1 \notin DOMAIN jobs
           /\ \A i \in DOMAIN jobs : jobs'[i] = jobs[i]
           /\ jobs'[Len(jobs) + 1] = NewJob(cmd)
           /\ \A i \in DOMAIN jobs' : GoodRow(jobs'[i])
<1> DEFINE x == NewJob(cmd)
<1>1. x \in Job /\ GoodRow(x) /\ jobs' = Append(jobs, x) /\ jobs \in Seq(Job)
  BY DEF GoodRow, Spawned, WorkersInv, WorkersTypeOK
<1> HIDE DEF x
<1>2. /\ jobs' \in Seq(Job) /\ Len(jobs') = Len(jobs) + 1
      /\ DOMAIN jobs' = DOMAIN jobs \cup {Len(jobs) + 1} /\ Len(jobs) + 1 \notin DOMAIN jobs
      /\ \A i \in DOMAIN jobs : jobs'[i] = jobs[i]
      /\ jobs'[Len(jobs) + 1] = x
  BY <1>1
<1>3. \A i \in DOMAIN jobs' : GoodRow(jobs'[i])
  BY <1>1, <1>2 DEF WorkersInv
<1> QED BY <1>2, <1>3 DEF x

LEMMA SpawnKeepsTypes ==
    ASSUME WorkersInv, NEW cmd \in WorkerCmd, Spawned(cmd),
           cmd.kind = "UpdateServer" => cmd.unit_id \in DOMAIN configs,
           UNCHANGED <<published, configs, dirs, files>>
    PROVE  WorkersInv' /\ Len(jobs') = Len(jobs) + 1
<1>1. GoodRow(NewJob(cmd))
  BY NewJobIsGood
<1>2. jobs' \in Seq(Job) /\ Len(jobs') = Len(jobs) + 1 /\ \A i \in DOMAIN jobs' : GoodRow(jobs'[i])
  BY <1>1, SpawnedRows
<1> QED BY <1>2 DEF WorkersInv, WorkersTypeOK, Listing

LEMMA AddedKeepsTypes ==
    ASSUME WorkersInv, NEW m \in AddServerUnitEvents, Added(m),
           UNCHANGED <<published, jobs, dirs, files>>
    PROVE  WorkersInv'
<1>1. m.unit_id \in Units /\ m.config \in Config
  BY DEF AddServerUnitEvents
<1>2. DOMAIN configs' \subseteq Units /\ \A u \in DOMAIN configs' : configs'[u] \in Config
  BY <1>1 DEF Added, WorkersInv, WorkersTypeOK
<1> QED BY <1>2 DEF WorkersInv, WorkersTypeOK, Listing

LEMMA NoWorkKeepsTypes ==
    ASSUME WorkersInv, UNCHANGED workVars
    PROVE  WorkersInv'
  BY DEF WorkersInv, WorkersTypeOK, Listing, workVars

LEMMA WorkersInitTypes ==
    ASSUME WorkersInit, Listing(published), DOMAIN configs \subseteq Units,
           \A u \in DOMAIN configs : configs[u] \in Config
    PROVE  WorkersInv
<1>1. jobs \in Seq(Job) /\ \A j \in DOMAIN jobs : GoodRow(jobs[j])
  BY DEF WorkersInit
<1> DEFINE at(d) == {v \in DOMAIN configs : configs[v].path = d}
           whole(d) == {configs[u].version : u \in at(d)}
<1>2. /\ DOMAIN dirs = {configs[u].path : u \in DOMAIN configs}
      /\ \A d \in DOMAIN dirs : dirs[d] = [eula |-> FALSE, partial |-> {}, whole |-> whole(d)]
  BY DEF WorkersInit
<1>3. \A d : whole(d) \in SUBSET Version
  BY DEF Config
<1> HIDE DEF whole
<1>4. DOMAIN dirs \subseteq Dirs /\ \A d \in DOMAIN dirs : dirs[d] \in Directory
  <2>1. DOMAIN dirs \subseteq Dirs
    BY <1>2 DEF Config
  <2>2. ASSUME NEW d \in DOMAIN dirs
        PROVE  dirs[d] \in Directory
    <3>1. PICK w \in SUBSET Version : w = whole(d)
      BY <1>3
    <3>2. dirs[d] = [eula |-> FALSE, partial |-> {}, whole |-> w]
      BY <1>2, <3>1
    <3> QED BY <3>2 DEF Directory
  <2> QED BY <2>1, <2>2
<1>5. files \in [Files -> UnitFile \cup {None, Broken}]
  <2>1. ASSUME NEW f \in Files
        PROVE  files[f] \in UnitFile \cup {None, Broken}
    <3>1. CASE \A u \in DOMAIN configs : configs[u].unit_file # f
      BY <3>1 DEF WorkersInit
    <3>2. CASE ~ \A u \in DOMAIN configs : configs[u].unit_file # f
      <4> DEFINE u == CHOOSE v \in DOMAIN configs : configs[v].unit_file = f
      <4>1. u \in DOMAIN configs
        BY <3>2
      <4>2. files[f] = AsFile(u, configs[u])
        BY <3>2 DEF WorkersInit
      <4> HIDE DEF u
      <4>3. configs[u] \in Config /\ u \in Units
        BY <4>1
      <4> QED BY <4>2, <4>3 DEF AsFile, UnitFile, Config
    <3> QED BY <3>1, <3>2
  <2>2. files = [f \in Files |-> files[f]]
    BY DEF WorkersInit
  <2> QED BY <2>1, <2>2
<1> QED BY <1>1, <1>4, <1>5 DEF WorkersInv, WorkersTypeOK
=============================================================================
