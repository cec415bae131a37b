-------------------------- MODULE NpmPublishProofs ---------------------------
(***************************************************************************)
(* Proofs about npm publish and npm install, for any number of publishes   *)
(* and installs and any versions, tags and tarballs.                       *)
(***************************************************************************)
EXTENDS NpmPublish, TLAPS

\* Records of a publish and of an install.
PublishPcs == {"idle", "201", "409", "500", "lost"} \cup Working

Publishing ==
  [pc: PublishPcs, version: Versions \cup {None}, tarball: Tarballs \cup {None},
   tag: Tags \cup {None}, stored: Packuments]

Installing ==
  [pc: {"idle", "resolved", "installed", "missing", "corrupt"},
   version: Versions \cup {None}, hash: Tarballs \cup {None}]

\* TypeOK, with names for these.
Typed ==
  /\ packument \in Packuments
  /\ tarball \in [Versions -> Tarballs \cup {None}]
  /\ pub \in [Publishers -> Publishing]
  /\ install \in [Installers -> Installing]
  /\ past \subseteq {"overlap", "again", "failedRead"}

-----------------------------------------------------------------------------
(* The invariant of every behaviour. *)

\* A publish that has begun knows what it publishes.
PublishesKnow ==
  \A p \in Publishers : pub[p].pc # "idle" =>
    pub[p].version \in Versions /\ pub[p].tarball \in Tarballs /\ pub[p].tag \in Tags

\* What was published: versions, each with its tarball.
Begun == {p \in Publishers : pub[p].pc # "idle"}
Released == {<<pub[p].version, pub[p].tarball>> : p \in Begun}

\* The packuments that are in use: the current one and what publishes hold.
Docs == {packument} \cup {pub[p].stored : p \in Publishers}

\* What a packument lists was published and has a tarball, and its tags name
\* versions that it lists.
Sound(doc) ==
  /\ \A v \in Versions : doc.versions[v] # None =>
       tarball[v] # None /\ <<v, doc.versions[v]>> \in Released
  /\ \A t \in Tags : doc.tags[t] # None => doc.versions[doc.tags[t]] # None

\* Every packument in use is sound, every tarball was published, and a publish
\* has written its own by the time it merges.
Packed ==
  /\ \A doc \in Docs : Sound(doc)
  /\ \A v \in Versions : tarball[v] # None => <<v, tarball[v]>> \in Released
  /\ \A p \in Publishers :
       pub[p].pc \in {"merge", "write"} => tarball[pub[p].version] # None

\* An install holds a hash that was published, of a version with a tarball.
Resolved ==
  \A i \in Installers : install[i].pc = "resolved" =>
    /\ install[i].version \in Versions
    /\ tarball[install[i].version] # None
    /\ <<install[i].version, install[i].hash>> \in Released

\* Publishes of one version have one tarball, until the history says otherwise.
Unrepeated ==
  "again" \notin past =>
    \A v \in Versions, b, c \in Tarballs :
      <<v, b>> \in Released /\ <<v, c>> \in Released => b = c

NpmInv == Typed /\ PublishesKnow /\ Packed /\ Resolved /\ Unrepeated /\ InstallsMatch

-----------------------------------------------------------------------------
(* Types. *)

LEMMA TypedIsTypeOK == Typed <=> TypeOK
  BY DEF Typed, TypeOK, Publishing, PublishPcs, Installing

LEMMA EmptyType == Empty \in Packuments /\ Idle \in Publishing /\ NoInstall \in Installing
  <1>1. Empty \in Packuments
    BY DEF Empty, Packuments
  <1> QED
    BY <1>1 DEF Idle, Publishing, PublishPcs, NoInstall, Installing

\* A publish whose place alone changes.
LEMMA MoveType ==
  ASSUME pub \in [Publishers -> Publishing], NEW p \in Publishers, NEW pc \in PublishPcs,
         pub' = [pub EXCEPT ![p].pc = pc]
  PROVE  /\ pub' \in [Publishers -> Publishing]
         /\ pub'[p].pc = pc
         /\ \A q \in Publishers : /\ pub'[q].version = pub[q].version
                                  /\ pub'[q].tarball = pub[q].tarball
                                  /\ pub'[q].tag = pub[q].tag
                                  /\ pub'[q].stored = pub[q].stored
         /\ \A q \in Publishers \ {p} : pub'[q] = pub[q]
  BY DEF Publishing

\* A publish that takes a packument over.
LEMMA HoldType ==
  ASSUME pub \in [Publishers -> Publishing], NEW p \in Publishers, NEW pc \in PublishPcs,
         NEW doc \in Packuments,
         pub' = [pub EXCEPT ![p].pc = pc, ![p].stored = doc]
  PROVE  /\ pub' \in [Publishers -> Publishing]
         /\ pub'[p].pc = pc
         /\ pub'[p].stored = doc
         /\ \A q \in Publishers : /\ pub'[q].version = pub[q].version
                                  /\ pub'[q].tarball = pub[q].tarball
                                  /\ pub'[q].tag = pub[q].tag
         /\ \A q \in Publishers \ {p} : pub'[q] = pub[q]
  BY DEF Publishing

LEMMA CrashType ==
  ASSUME pub \in [Publishers -> Publishing],
         pub' = [p \in Publishers |->
           IF pub[p].pc \in Working THEN [pub[p] EXCEPT !.pc = "lost"] ELSE pub[p]]
  PROVE  /\ pub' \in [Publishers -> Publishing]
         /\ \A q \in Publishers : /\ pub'[q].version = pub[q].version
                                  /\ pub'[q].tarball = pub[q].tarball
                                  /\ pub'[q].tag = pub[q].tag
                                  /\ pub'[q].stored = pub[q].stored
                                  /\ pub'[q].pc =
                                       IF pub[q].pc \in Working THEN "lost" ELSE pub[q].pc
  BY DEF Publishing, PublishPcs

\* What merging a version into a packument gives.
LEMMA MergeFacts ==
  ASSUME NEW doc \in Packuments, NEW q \in Publishing
  PROVE  /\ Merge(doc, q) \in Packuments
         /\ Merge(doc, q).versions = [doc.versions EXCEPT ![q.version] = q.tarball]
         /\ Merge(doc, q).tags = [doc.tags EXCEPT ![q.tag] = q.version]
  <1>1. [doc.versions EXCEPT ![q.version] = q.tarball] \in [Versions -> Tarballs \cup {None}]
    BY DEF Packuments, Publishing
  <1>2. [doc.tags EXCEPT ![q.tag] = q.version] \in [Tags -> Versions \cup {None}]
    BY DEF Packuments, Publishing
  <1> QED
    BY <1>1, <1>2 DEF Merge, Packuments

-----------------------------------------------------------------------------
(* Every step keeps the invariant. *)

LEMMA NpmInit == Init => NpmInv
  <1> SUFFICES ASSUME Init PROVE NpmInv
    OBVIOUS
  <1>1. Typed
    BY EmptyType DEF Init, Typed
  <1>2. PublishesKnow
    BY DEF Init, PublishesKnow, Idle
  <1>3. Packed
    <2>1. ASSUME NEW doc \in Docs PROVE doc = Empty
      BY <2>1 DEF Docs, Init, Idle
    <2>2. Sound(Empty)
      BY DEF Sound, Empty
    <2> QED
      BY <2>1, <2>2 DEF Packed, Init, Idle
  <1>4. Resolved /\ InstallsMatch
    BY DEF Init, Resolved, InstallsMatch, NoInstall
  <1>5. Unrepeated
    BY DEF Init, Unrepeated, Released, Begun, Idle
  <1> QED
    BY <1>1, <1>2, <1>3, <1>4, <1>5 DEF NpmInv

\* What is published stays published while publishes keep their versions and
\* tarballs.
LEMMA ReleasedStays ==
  ASSUME \A p \in Publishers :
           /\ pub'[p].version = pub[p].version
           /\ pub'[p].tarball = pub[p].tarball
           /\ pub'[p].pc = "idle" <=> pub[p].pc = "idle"
  PROVE  Released' = Released
  <1>1. Begun' = Begun
    BY DEF Begun
  <1> QED
    BY <1>1 DEF Released, Begun

LEMMA SoundStays ==
  ASSUME Released \subseteq Released',
         \A v \in Versions : tarball[v] # None => tarball'[v] # None,
         NEW doc, Sound(doc)
  PROVE  Sound(doc)'
  BY DEF Sound

\* A step of a publish that has begun, or a crash: it writes its tarball or none,
\* and no packument that is not sound.
LEMMA PublishKeeps ==
  ASSUME NpmInv,
         Typed',
         past \subseteq past',
         \A p \in Publishers :
           /\ pub'[p].version = pub[p].version
           /\ pub'[p].tarball = pub[p].tarball
           /\ pub'[p].tag = pub[p].tag
           /\ pub'[p].pc = "idle" <=> pub[p].pc = "idle"
           /\ pub'[p].pc \in {"merge", "write"} =>
                pub[p].pc \in {"merge", "write"} \/ tarball'[pub[p].version] # None,
         \A v \in Versions : \/ tarball'[v] = tarball[v]
                             \/ tarball'[v] # None /\ <<v, tarball'[v]>> \in Released,
         \A doc \in Docs' : doc \in Docs \/ Sound(doc)',
         install' = install \/ install' = [i \in Installers |-> NoInstall]
  PROVE  NpmInv'
  <1> USE DEF NpmInv
  <1>1. Released' = Released
    BY ReleasedStays
  <1>2. \A v \in Versions : tarball[v] # None => tarball'[v] # None
    OBVIOUS
  <1>3. PublishesKnow'
    BY DEF PublishesKnow
  <1>4. Packed'
    <2>1. ASSUME NEW doc \in Docs' PROVE Sound(doc)'
      <3>1. CASE doc \in Docs
        BY <3>1, <1>1, <1>2, SoundStays DEF Packed
      <3> QED
        BY <3>1
    <2>2. ASSUME NEW v \in Versions, tarball'[v] # None PROVE <<v, tarball'[v]>> \in Released'
      BY <2>2, <1>1 DEF Packed
    <2>3. ASSUME NEW p \in Publishers, pub'[p].pc \in {"merge", "write"}
          PROVE  tarball'[pub'[p].version] # None
      <3>1. pub[p].pc # "idle"
        BY <2>3
      <3>2. pub[p].version \in Versions
        BY <3>1 DEF PublishesKnow
      <3> QED
        BY <2>3, <3>2, <1>2 DEF Packed
    <2> QED
      BY <2>1, <2>2, <2>3 DEF Packed
  <1>5. Resolved'
    BY <1>1, <1>2 DEF Resolved, NoInstall
  <1>6. Unrepeated'
    BY <1>1 DEF Unrepeated
  <1>7. InstallsMatch'
    BY DEF InstallsMatch, NoInstall
  <1> QED
    BY <1>3, <1>4, <1>5, <1>6, <1>7

LEMMA BeginKeeps ==
  ASSUME NpmInv, NEW p \in Publishers, NEW v \in Versions, NEW b \in Tarballs, NEW t \in Tags,
         Begin(p, v, b, t)
  PROVE  NpmInv'
  <1> USE PublishAssumption DEF NpmInv, PublishAssumption
  <1> DEFINE new == [Idle EXCEPT !.pc = "read", !.version = v, !.tarball = b, !.tag = t]
  <1>1. new \in Publishing
    BY EmptyType DEF Idle, Publishing, PublishPcs, Working
  <1>2. new.pc = "read" /\ new.version = v /\ new.tarball = b /\ new.tag = t /\ new.stored = Empty
    BY DEF Idle
  <1>3. pub' = [pub EXCEPT ![p] = new] /\ pub[p].pc = "idle"
    BY DEF Begin
  <1> HIDE DEF new
  <1>4. pub' \in [Publishers -> Publishing]
    BY <1>1, <1>3 DEF Typed
  <1>5. Typed'
    BY <1>4 DEF Begin, Typed
  <1>6. PublishesKnow'
    BY <1>2, <1>3 DEF PublishesKnow, Typed
  <1>7. Released' = Released \cup {<<v, b>>}
    <2>1. Begun' = Begun \cup {p} /\ p \notin Begun
      BY <1>2, <1>3 DEF Begun, Typed
    <2>2. \A q \in Begun : pub'[q] = pub[q]
      BY <2>1, <1>3 DEF Begun, Typed
    <2>3. pub'[p].version = v /\ pub'[p].tarball = b
      BY <1>2, <1>3 DEF Typed
    <2> QED
      BY <2>1, <2>2, <2>3 DEF Released
  <1>8. Packed'
    <2>1. ASSUME NEW doc \in Docs' PROVE Sound(doc)'
      <3>1. doc \in Docs \/ doc = Empty
        <4>1. CASE doc = packument'
          BY <4>1 DEF Docs, Begin
        <4>2. ASSUME NEW q \in Publishers, doc = pub'[q].stored
              PROVE  doc \in Docs \/ doc = Empty
          <5>1. CASE q = p
            BY <4>2, <5>1, <1>2, <1>3 DEF Typed
          <5>2. CASE q # p
            BY <4>2, <5>2, <1>3 DEF Docs, Typed
          <5> QED
            BY <5>1, <5>2
        <4> QED
          BY <4>1, <4>2 DEF Docs
      <3>2. Sound(Empty)
        BY DEF Sound, Empty
      <3> QED
        BY <3>1, <3>2, <1>7, SoundStays DEF Packed, Begin
    <2>2. \A w \in Versions : tarball'[w] # None => <<w, tarball'[w]>> \in Released'
      BY <1>7 DEF Packed, Begin
    <2>3. \A q \in Publishers : pub'[q].pc \in {"merge", "write"} => tarball'[pub'[q].version] # None
      BY <1>2, <1>3 DEF Packed, Begin, Typed
    <2> QED
      BY <2>1, <2>2, <2>3 DEF Packed
  <1>9. Resolved'
    BY <1>7 DEF Resolved, Begin
  <1>10. Unrepeated'
    <2> SUFFICES ASSUME "again" \notin past',
                        NEW w \in Versions, NEW c \in Tarballs, NEW d \in Tarballs,
                        <<w, c>> \in Released', <<w, d>> \in Released'
                 PROVE  c = d
      BY DEF Unrepeated
    <2>1. "again" \notin past /\ \A q \in Publishers : pub[q].version = v => pub[q].tarball = b
      BY DEF Begin
    <2>2. ASSUME NEW e \in Tarballs, <<v, e>> \in Released PROVE e = b
      BY <2>1, <2>2 DEF Released, Begun
    <2> QED
      BY <2>1, <2>2, <1>7 DEF Unrepeated
  <1>11. InstallsMatch'
    BY DEF InstallsMatch, Begin
  <1> QED
    BY <1>5, <1>6, <1>8, <1>9, <1>10, <1>11

\* A step of publish p that changes at most its place, and writes no packument.
LEMMA MoveKeeps ==
  ASSUME NpmInv, NEW p \in Publishers, NEW pc \in PublishPcs \ {"idle"}, pub[p].pc # "idle",
         pub' = [pub EXCEPT ![p].pc = pc],
         pc \in {"merge", "write"} =>
           pub[p].pc \in {"merge", "write"} \/ tarball'[pub[p].version] # None,
         \/ tarball' = tarball
         \/ tarball' = [tarball EXCEPT ![pub[p].version] = pub[p].tarball],
         packument' = packument, install' = install, past \subseteq past',
         past' \subseteq {"overlap", "again", "failedRead"}
  PROVE  NpmInv'
  <1>1. /\ pub' \in [Publishers -> Publishing]
        /\ pub'[p].pc = pc
        /\ \A q \in Publishers : /\ pub'[q].version = pub[q].version
                                 /\ pub'[q].tarball = pub[q].tarball
                                 /\ pub'[q].tag = pub[q].tag
                                 /\ pub'[q].stored = pub[q].stored
        /\ \A q \in Publishers \ {p} : pub'[q] = pub[q]
    BY MoveType DEF NpmInv, Typed
  <1>2. pub[p].version \in Versions /\ pub[p].tarball \in Tarballs
    BY DEF NpmInv, PublishesKnow
  <1>3. <<pub[p].version, pub[p].tarball>> \in Released
    BY DEF Released, Begun
  <1>4. Typed'
    BY <1>1, <1>2 DEF NpmInv, Typed
  <1>5. \A v \in Versions : \/ tarball'[v] = tarball[v]
                            \/ tarball'[v] # None /\ <<v, tarball'[v]>> \in Released
    BY <1>2, <1>3, PublishAssumption DEF NpmInv, Typed, PublishAssumption
  <1>6. \A doc \in Docs' : doc \in Docs
    BY <1>1 DEF Docs
  <1>7. \A q \in Publishers :
          /\ pub'[q].pc = "idle" <=> pub[q].pc = "idle"
          /\ pub'[q].pc \in {"merge", "write"} =>
               pub[q].pc \in {"merge", "write"} \/ tarball'[pub[q].version] # None
    BY <1>1
  <1> QED
    BY <1>1, <1>4, <1>5, <1>6, <1>7, PublishKeeps

LEMMA LoadKeeps == ASSUME NpmInv, NEW p \in Publishers, Load(p) PROVE NpmInv'
  <1>1. packument \in Packuments /\ "tarball" \in PublishPcs
    BY DEF NpmInv, Typed, PublishPcs, Working
  <1>2. pub' = [pub EXCEPT ![p].pc = "tarball", ![p].stored = packument] /\ pub[p].pc = "read"
    BY DEF Load
  <1>3. /\ pub' \in [Publishers -> Publishing]
        /\ pub'[p].pc = "tarball"
        /\ pub'[p].stored = packument
        /\ \A q \in Publishers : /\ pub'[q].version = pub[q].version
                                 /\ pub'[q].tarball = pub[q].tarball
                                 /\ pub'[q].tag = pub[q].tag
        /\ \A q \in Publishers \ {p} : pub'[q] = pub[q]
    BY <1>1, <1>2, HoldType DEF NpmInv, Typed
  <1>4. Typed'
    BY <1>3 DEF NpmInv, Typed, Load
  <1>5. \A doc \in Docs' : doc \in Docs
    <2> SUFFICES ASSUME NEW q \in Publishers PROVE pub'[q].stored \in Docs
      BY DEF Docs, Load
    <2> QED
      BY <1>3 DEF Docs
  <1>6. \A q \in Publishers :
          /\ pub'[q].pc = "idle" <=> pub[q].pc = "idle"
          /\ pub'[q].pc \in {"merge", "write"} => pub[q].pc \in {"merge", "write"}
    BY <1>2, <1>3
  <1> QED
    BY <1>3, <1>4, <1>5, <1>6, PublishKeeps DEF Load

LEMMA MergeKeeps == ASSUME NpmInv, NEW p \in Publishers, MergeVersion(p) PROVE NpmInv'
  <1> DEFINE doc == Merge(pub[p].stored, pub[p])
  <1>1. /\ pub' = [pub EXCEPT ![p].pc = "write", ![p].stored = Merge(@, pub[p])]
        /\ pub[p].pc = "merge"
    BY DEF MergeVersion
  <1>2. pub[p] \in Publishing /\ pub[p].stored \in Packuments /\ "write" \in PublishPcs
    BY DEF NpmInv, Typed, Publishing, PublishPcs, Working
  <1>3. /\ doc \in Packuments
        /\ doc.versions = [pub[p].stored.versions EXCEPT ![pub[p].version] = pub[p].tarball]
        /\ doc.tags = [pub[p].stored.tags EXCEPT ![pub[p].tag] = pub[p].version]
    BY <1>2, MergeFacts
  <1>4. pub' = [pub EXCEPT ![p].pc = "write", ![p].stored = doc]
    BY <1>1 DEF NpmInv, Typed
  <1> HIDE DEF doc
  <1>5. /\ pub' \in [Publishers -> Publishing]
        /\ pub'[p].pc = "write"
        /\ pub'[p].stored = doc
        /\ \A q \in Publishers : /\ pub'[q].version = pub[q].version
                                 /\ pub'[q].tarball = pub[q].tarball
                                 /\ pub'[q].tag = pub[q].tag
        /\ \A q \in Publishers \ {p} : pub'[q] = pub[q]
    BY <1>2, <1>3, <1>4, HoldType DEF NpmInv, Typed
  <1>6. Typed'
    BY <1>5 DEF NpmInv, Typed, MergeVersion
  <1>7. \A q \in Publishers :
          /\ pub'[q].pc = "idle" <=> pub[q].pc = "idle"
          /\ pub'[q].pc \in {"merge", "write"} => pub[q].pc \in {"merge", "write"}
    BY <1>1, <1>5
  \* What was merged is sound: its tarball is there and was published.
  <1>8. Sound(doc)
    <2>1. /\ pub[p].version \in Versions /\ pub[p].tarball \in Tarballs /\ pub[p].tag \in Tags
          /\ tarball[pub[p].version] # None
          /\ <<pub[p].version, pub[p].tarball>> \in Released
          /\ pub[p].tarball # None
      BY <1>1, PublishAssumption
         DEF NpmInv, PublishesKnow, Packed, Released, Begun, PublishAssumption
    <2>2. Sound(pub[p].stored)
      BY DEF NpmInv, Packed, Docs
    <2>3. /\ pub[p].stored.versions \in [Versions -> Tarballs \cup {None}]
          /\ pub[p].stored.tags \in [Tags -> Versions \cup {None}]
      BY <1>2 DEF Packuments
    <2>4. \A v \in Versions : doc.versions[v] # None =>
            tarball[v] # None /\ <<v, doc.versions[v]>> \in Released
      BY <1>3, <2>1, <2>2, <2>3 DEF Sound
    <2>5. \A t \in Tags : doc.tags[t] # None => doc.versions[doc.tags[t]] # None
      BY <1>3, <2>1, <2>2, <2>3 DEF Sound
    <2> QED
      BY <2>4, <2>5 DEF Sound
  <1>9. Released' = Released
    BY <1>5, <1>7, ReleasedStays
  <1>10. \A d \in Docs' : d \in Docs \/ Sound(d)'
    <2> SUFFICES ASSUME NEW d \in Docs', d \notin Docs PROVE Sound(d)'
      OBVIOUS
    <2>1. d = doc
      BY <1>5 DEF Docs, MergeVersion
    <2>2. Sound(d)
      BY <2>1, <1>8
    <2> QED
      BY <2>2, <1>9, SoundStays DEF MergeVersion
  <1> QED
    BY <1>5, <1>6, <1>7, <1>10, PublishKeeps DEF MergeVersion

LEMMA WriteKeeps == ASSUME NpmInv, NEW p \in Publishers, WritePackument(p) PROVE NpmInv'
  <1>1. pub' = [pub EXCEPT ![p].pc = "recorded"] /\ pub[p].pc = "write" /\ "recorded" \in PublishPcs
    BY DEF WritePackument, Goto, PublishPcs, Working
  <1>2. /\ pub' \in [Publishers -> Publishing]
        /\ pub'[p].pc = "recorded"
        /\ \A q \in Publishers : /\ pub'[q].version = pub[q].version
                                 /\ pub'[q].tarball = pub[q].tarball
                                 /\ pub'[q].tag = pub[q].tag
                                 /\ pub'[q].stored = pub[q].stored
        /\ \A q \in Publishers \ {p} : pub'[q] = pub[q]
    BY <1>1, MoveType DEF NpmInv, Typed
  <1>3. packument' \in Packuments
    BY DEF NpmInv, Typed, WritePackument, Publishing
  <1>4. Typed'
    BY <1>2, <1>3 DEF NpmInv, Typed, WritePackument
  <1>5. \A doc \in Docs' : doc \in Docs
    BY <1>2 DEF Docs, WritePackument
  <1>6. \A q \in Publishers :
          /\ pub'[q].pc = "idle" <=> pub[q].pc = "idle"
          /\ pub'[q].pc \in {"merge", "write"} => pub[q].pc \in {"merge", "write"}
    BY <1>1, <1>2
  <1> QED
    BY <1>2, <1>4, <1>5, <1>6, PublishKeeps DEF WritePackument

LEMMA CrashKeeps == ASSUME NpmInv, Crash PROVE NpmInv'
  <1>1. /\ pub' \in [Publishers -> Publishing]
        /\ \A q \in Publishers : /\ pub'[q].version = pub[q].version
                                 /\ pub'[q].tarball = pub[q].tarball
                                 /\ pub'[q].tag = pub[q].tag
                                 /\ pub'[q].stored = pub[q].stored
                                 /\ pub'[q].pc =
                                      IF pub[q].pc \in Working THEN "lost" ELSE pub[q].pc
    BY CrashType DEF NpmInv, Typed, Crash
  <1>2. install' \in [Installers -> Installing]
    BY EmptyType DEF Crash
  <1>3. Typed'
    BY <1>1, <1>2 DEF NpmInv, Typed, Crash
  <1>4. \A doc \in Docs' : doc \in Docs
    BY <1>1 DEF Docs, Crash
  <1>5. \A q \in Publishers :
          /\ pub'[q].pc = "idle" <=> pub[q].pc = "idle"
          /\ pub'[q].pc \in {"merge", "write"} => pub[q].pc \in {"merge", "write"}
    BY <1>1 DEF Working
  <1> QED
    BY <1>1, <1>3, <1>4, <1>5, PublishKeeps DEF Crash

\* An install is given a hash that was published, and it finds the tarball that
\* was published, which is the only one unless the version was repeated.
LEMMA InstallKeeps ==
  ASSUME NpmInv, NEW i \in Installers, (\E t \in Tags : Resolve(i, t)) \/ Fetch(i)
  PROVE  NpmInv'
  <1> USE DEF NpmInv
  <1>1. UNCHANGED <<packument, tarball, pub, past>>
    BY DEF Resolve, Fetch
  <1>2. PublishesKnow' /\ Packed' /\ Unrepeated' /\ Released' = Released
    <2>1. Released' = Released /\ Docs' = Docs
      BY <1>1 DEF Released, Begun, Docs
    <2>2. \A doc \in Docs : Sound(doc)'
      BY <1>1, <2>1 DEF Packed, Sound
    <2> QED
      BY <1>1, <2>1, <2>2 DEF PublishesKnow, Packed, Unrepeated
  <1>3. ASSUME NEW t \in Tags, Resolve(i, t) PROVE Typed' /\ Resolved' /\ InstallsMatch'
    <2> DEFINE v == packument.tags[t]
    <2> DEFINE new == [pc |-> "resolved", version |-> v, hash |-> packument.versions[v]]
    <2>1. install' = [install EXCEPT ![i] = new] /\ v # None
      BY <1>3 DEF Resolve
    <2>2. v \in Versions /\ packument.versions[v] \in Tarballs \cup {None}
      BY <2>1 DEF Typed, Packuments
    <2>3. packument.versions[v] # None /\ tarball[v] # None
          /\ <<v, packument.versions[v]>> \in Released
      BY <2>1, <2>2 DEF Packed, Sound, Docs
    <2>4. new \in Installing
      BY <2>2 DEF Installing
    <2>5. new.pc = "resolved" /\ new.version = v /\ new.hash = packument.versions[v]
      OBVIOUS
    <2> HIDE DEF new, v
    <2>6. Typed'
      BY <1>1, <2>1, <2>4 DEF Typed
    <2>7. Resolved'
      BY <1>1, <1>2, <2>1, <2>2, <2>3, <2>5 DEF Resolved, Typed
    <2>8. InstallsMatch'
      BY <1>1, <2>1, <2>5 DEF InstallsMatch, Typed
    <2> QED
      BY <2>6, <2>7, <2>8
  <1>4. ASSUME Fetch(i) PROVE Typed' /\ Resolved' /\ InstallsMatch'
    <2> DEFINE pc == IF tarball[install[i].version] = None THEN "missing"
                     ELSE IF tarball[install[i].version] = install[i].hash THEN "installed"
                     ELSE "corrupt"
    <2>1. install' = [install EXCEPT ![i].pc = pc] /\ install[i].pc = "resolved"
      BY <1>4 DEF Fetch
    <2>2. install[i].version \in Versions /\ tarball[install[i].version] # None
          /\ <<install[i].version, install[i].hash>> \in Released
      BY <2>1 DEF Resolved
    <2>3. "again" \notin past => pc = "installed"
      <3>1. <<install[i].version, tarball[install[i].version]>> \in Released
        BY <2>2 DEF Packed
      <3>2. tarball[install[i].version] \in Tarballs
        BY <2>2 DEF Typed
      <3>3. install[i].hash \in Tarballs
        BY <2>2 DEF Released, Begun, PublishesKnow
      <3> QED
        BY <2>2, <3>1, <3>2, <3>3 DEF Unrepeated
    <2>4. pc \in {"missing", "installed", "corrupt"}
      OBVIOUS
    <2> HIDE DEF pc
    <2>5. install' \in [Installers -> Installing]
      BY <2>1, <2>4 DEF Typed, Installing
    <2>6. /\ install'[i].pc = pc
          /\ \A j \in Installers \ {i} : install'[j] = install[j]
      BY <2>1 DEF Typed, Installing
    <2>7. Typed'
      BY <1>1, <2>5 DEF Typed
    <2>8. Resolved'
      BY <1>1, <1>2, <2>4, <2>6 DEF Resolved
    <2>9. InstallsMatch'
      BY <1>1, <2>3, <2>6 DEF InstallsMatch
    <2> QED
      BY <2>7, <2>8, <2>9
  <1> QED
    BY <1>2, <1>3, <1>4

LEMMA StepKinds ==
  ASSUME [Next]_vars
  PROVE  \/ \E p \in Publishers :
              \/ \E v \in Versions, b \in Tarballs, t \in Tags : Begin(p, v, b, t)
              \/ Load(p)
              \/ LoadFails(p)
              \/ StoreTarball(p)
              \/ MergeVersion(p)
              \/ MergeConflict(p)
              \/ WritePackument(p)
              \/ Answer(p)
              \/ PublishFails(p)
         \/ Crash
         \/ \E i \in Installers : (\E t \in Tags : Resolve(i, t)) \/ Fetch(i)
         \/ UNCHANGED vars
  BY DEF Next

LEMMA NpmStep == NpmInv /\ [Next]_vars => NpmInv'
  <1> SUFFICES ASSUME NpmInv, [Next]_vars PROVE NpmInv'
    OBVIOUS
  <1> USE DEF PublishPcs, Working
  <1>1. ASSUME NEW p \in Publishers, LoadFails(p) PROVE NpmInv'
    BY <1>1, MoveKeeps DEF LoadFails, Goto, NpmInv, Typed
  <1>2. ASSUME NEW p \in Publishers, StoreTarball(p) PROVE NpmInv'
    <2>1. pub[p].version \in Versions /\ pub[p].tarball \in Tarballs
      BY <1>2 DEF StoreTarball, Goto, NpmInv, PublishesKnow
    <2>2. tarball'[pub[p].version] # None
      BY <1>2, <2>1, PublishAssumption DEF StoreTarball, NpmInv, Typed, PublishAssumption
    <2> QED
      BY <1>2, <2>2, MoveKeeps DEF StoreTarball, Goto, NpmInv, Typed
  <1>3. ASSUME NEW p \in Publishers, MergeConflict(p) PROVE NpmInv'
    BY <1>3, MoveKeeps DEF MergeConflict, Goto, NpmInv, Typed
  <1>4. ASSUME NEW p \in Publishers, Answer(p) PROVE NpmInv'
    BY <1>4, MoveKeeps DEF Answer, Goto, NpmInv, Typed
  <1>5. ASSUME NEW p \in Publishers, PublishFails(p) PROVE NpmInv'
    BY <1>5, MoveKeeps DEF PublishFails, Goto, NpmInv, Typed
  <1>6. CASE UNCHANGED vars
    <2>1. Released' = Released /\ Docs' = Docs
      BY <1>6 DEF vars, Released, Begun, Docs
    <2>2. \A doc \in Docs : Sound(doc)'
      BY <1>6, <2>1 DEF vars, NpmInv, Packed, Sound
    <2> QED
      BY <1>6, <2>1, <2>2
         DEF vars, NpmInv, Typed, PublishesKnow, Packed, Resolved, Unrepeated, InstallsMatch
  <1> QED
    BY <1>1, <1>2, <1>3, <1>4, <1>5, <1>6, StepKinds,
       BeginKeeps, LoadKeeps, MergeKeeps, WriteKeeps, CrashKeeps, InstallKeeps

\* What always holds of npm publish and install.
THEOREM NpmInvariance == Spec => []NpmInv
  BY NpmInit, NpmStep, PTL DEF Spec

\* Every variable keeps its type, through every publish, install and death.
THEOREM TypeCorrect == Spec => []TypeOK
  <1>1. NpmInv => TypeOK
    BY TypedIsTypeOK DEF NpmInv
  <1> QED
    BY <1>1, NpmInvariance, PTL

\* A listed version has a tarball and a tag names a listed version, whatever
\* publishes overlap, fail or die (npm/handler.go:262-305).
THEOREM ListedIsCompleteAlways == Spec => []ListedIsComplete
  <1>1. NpmInv => ListedIsComplete
    BY DEF NpmInv, Packed, Docs, Sound, ListedIsComplete
  <1> QED
    BY <1>1, NpmInvariance, PTL

\* An install gets a tarball with the hash that it was given, until a version is
\* published again with another tarball (npm/handler.go:113-153, 195-230, 262-287).
THEOREM InstallsMatchAlways == Spec => []InstallsMatch
  <1>1. NpmInv => InstallsMatch
    BY DEF NpmInv
  <1> QED
    BY <1>1, NpmInvariance, PTL

-----------------------------------------------------------------------------
(* The invariant while no publishes overlap and no read fails. *)

Alone == \A p, q \in Publishers : pub[p].pc \in Working /\ pub[q].pc \in Working => p = q

\* The publish at work holds the packument that is current, or that one with its
\* own version added, which was not there.
HoldsCurrent ==
  \A p \in Publishers :
    /\ pub[p].pc \in {"tarball", "merge"} => pub[p].stored = packument
    /\ pub[p].pc = "write" =>
         /\ packument.versions[pub[p].version] = None
         /\ pub[p].stored.versions =
              [packument.versions EXCEPT ![pub[p].version] = pub[p].tarball]

InTurn == past \subseteq {"again"} => Alone /\ HoldsCurrent

LEMMA InTurnInit == Init => InTurn
  BY DEF Init, InTurn, Alone, HoldsCurrent, Idle, Working

\* A step that leaves the packument alone, and takes publish p on.
LEMMA TurnMoves ==
  ASSUME NpmInv, Alone, HoldsCurrent, NEW p \in Publishers,
         pub[p].pc \in Working,
         pub' \in [Publishers -> Publishing],
         packument' = packument,
         \A q \in Publishers \ {p} : pub'[q] = pub[q],
         pub'[p].version = pub[p].version, pub'[p].tarball = pub[p].tarball,
         pub'[p].pc \in {"tarball", "merge"} => pub'[p].stored = packument,
         pub'[p].pc = "write" =>
           /\ packument.versions[pub[p].version] = None
           /\ pub'[p].stored.versions =
                [packument.versions EXCEPT ![pub[p].version] = pub[p].tarball]
  PROVE  Alone' /\ HoldsCurrent'
  <1>1. Alone'
    BY DEF Alone
  <1>2. HoldsCurrent'
    BY DEF HoldsCurrent
  <1> QED
    BY <1>1, <1>2

LEMMA TurnMerges ==
  ASSUME NpmInv, Alone, HoldsCurrent, NEW p \in Publishers, MergeVersion(p)
  PROVE  Alone' /\ HoldsCurrent'
  <1> DEFINE doc == Merge(pub[p].stored, pub[p])
  <1>1. /\ pub[p].pc = "merge"
        /\ pub[p].stored = packument
        /\ packument.versions[pub[p].version] = None
        /\ pub' = [pub EXCEPT ![p].pc = "write", ![p].stored = doc]
        /\ packument' = packument
    BY DEF MergeVersion, HoldsCurrent, NpmInv, Typed
  <1>2. pub[p] \in Publishing /\ packument \in Packuments
        /\ "write" \in PublishPcs /\ "merge" \in Working
    BY DEF NpmInv, Typed, PublishPcs, Working
  <1>3. /\ doc \in Packuments
        /\ doc.versions = [packument.versions EXCEPT ![pub[p].version] = pub[p].tarball]
    BY <1>1, <1>2, MergeFacts
  <1> HIDE DEF doc
  <1>4. /\ pub' \in [Publishers -> Publishing]
        /\ pub'[p].pc = "write"
        /\ pub'[p].stored = doc
        /\ \A q \in Publishers : /\ pub'[q].version = pub[q].version
                                 /\ pub'[q].tarball = pub[q].tarball
                                 /\ pub'[q].tag = pub[q].tag
        /\ \A q \in Publishers \ {p} : pub'[q] = pub[q]
    BY <1>1, <1>2, <1>3, HoldType DEF NpmInv, Typed
  <1> QED
    BY <1>1, <1>2, <1>3, <1>4, TurnMoves

LEMMA PastStays == ASSUME [Next]_vars PROVE past \subseteq past'
  BY StepKinds DEF Begin, Load, LoadFails, StoreTarball, MergeVersion, MergeConflict,
     WritePackument, Answer, PublishFails, Crash, Resolve, Fetch, vars

LEMMA InTurnStep == NpmInv /\ InTurn /\ [Next]_vars => InTurn'
  <1> SUFFICES ASSUME NpmInv, Alone, HoldsCurrent, [Next]_vars, past' \subseteq {"again"}
               PROVE  Alone' /\ HoldsCurrent'
    BY PastStays DEF InTurn
  <1> USE DEF NpmInv, Typed, PublishPcs, Working
  <1>1. ASSUME NEW p \in Publishers, NEW v \in Versions, NEW b \in Tarballs, NEW t \in Tags,
               Begin(p, v, b, t)
        PROVE  Alone' /\ HoldsCurrent'
    <2>1. \A q \in Publishers : pub[q].pc \notin Working
      BY <1>1 DEF Begin
    <2>2. \A q \in Publishers \ {p} : pub'[q] = pub[q]
      BY <1>1 DEF Begin
    <2>3. pub'[p].pc = "read"
      BY <1>1 DEF Begin, Idle
    <2> QED
      BY <2>1, <2>2, <2>3 DEF Alone, HoldsCurrent
  <1>2. ASSUME NEW p \in Publishers, Load(p) PROVE Alone' /\ HoldsCurrent'
    <2>1. /\ pub' \in [Publishers -> Publishing]
          /\ pub'[p].pc = "tarball" /\ pub'[p].stored = packument
          /\ pub'[p].version = pub[p].version /\ pub'[p].tarball = pub[p].tarball
          /\ \A q \in Publishers \ {p} : pub'[q] = pub[q]
      BY <1>2, HoldType DEF Load
    <2> QED
      BY <1>2, <2>1, TurnMoves DEF Load
  <1>3. ASSUME NEW p \in Publishers, NEW pc \in PublishPcs, pub[p].pc \in Working,
               pub' = [pub EXCEPT ![p].pc = pc], packument' = packument,
               pc \notin {"tarball", "write"}, pc = "merge" => pub[p].pc = "tarball"
        PROVE  Alone' /\ HoldsCurrent'
    <2>1. /\ pub' \in [Publishers -> Publishing]
          /\ pub'[p].pc = pc /\ pub'[p].stored = pub[p].stored
          /\ pub'[p].version = pub[p].version /\ pub'[p].tarball = pub[p].tarball
          /\ \A q \in Publishers \ {p} : pub'[q] = pub[q]
      BY <1>3, MoveType
    <2>2. pc = "merge" => pub[p].stored = packument
      BY <1>3 DEF HoldsCurrent
    <2> QED
      BY <1>3, <2>1, <2>2, TurnMoves
  <1>4. ASSUME NEW p \in Publishers, LoadFails(p) PROVE FALSE
    BY <1>4 DEF LoadFails
  <1>5. ASSUME NEW p \in Publishers,
               StoreTarball(p) \/ MergeConflict(p) \/ Answer(p) \/ PublishFails(p)
        PROVE  Alone' /\ HoldsCurrent'
    BY <1>3, <1>5 DEF StoreTarball, MergeConflict, Answer, PublishFails, Goto
  <1>6. ASSUME NEW p \in Publishers, MergeVersion(p) PROVE Alone' /\ HoldsCurrent'
    BY <1>6, TurnMerges
  <1>7. ASSUME NEW p \in Publishers, WritePackument(p) PROVE Alone' /\ HoldsCurrent'
    <2>1. pub[p].pc = "write" /\ pub' = [pub EXCEPT ![p].pc = "recorded"]
      BY <1>7 DEF WritePackument, Goto
    <2>2. /\ pub'[p].pc = "recorded"
          /\ \A q \in Publishers \ {p} : pub'[q] = pub[q]
      BY <2>1, MoveType
    <2>3. \A q \in Publishers \ {p} : pub[q].pc \notin Working
      BY <2>1 DEF Alone
    <2> QED
      BY <2>2, <2>3 DEF Alone, HoldsCurrent
  <1>8. CASE Crash
    <2>1. \A q \in Publishers : pub'[q].pc \notin Working
      BY <1>8, CrashType DEF Crash
    <2> QED
      BY <2>1 DEF Alone, HoldsCurrent
  <1>9. ASSUME UNCHANGED <<packument, pub>> PROVE Alone' /\ HoldsCurrent'
    BY <1>9 DEF Alone, HoldsCurrent
  <1> QED
    BY <1>1, <1>2, <1>4, <1>5, <1>6, <1>7, <1>8, <1>9, StepKinds DEF Resolve, Fetch, vars

-----------------------------------------------------------------------------
(* npm publish implements the version list. *)

LEMMA PhaseValues ==
  /\ PhaseOf("idle") = "idle"
  /\ PhaseOf("read") = "open"
  /\ PhaseOf("tarball") = "open"
  /\ PhaseOf("merge") = "open"
  /\ PhaseOf("write") = "open"
  /\ PhaseOf("recorded") = "listed"
  /\ PhaseOf("201") = "created"
  /\ PhaseOf("409") = "refused"
  /\ PhaseOf("500") = "refused"
  /\ PhaseOf("lost") = "refused"
  BY DEF PhaseOf

LEMMA PromiseInit == Init => Promise!Init
  BY PhaseValues DEF Init, Promise!Init, Empty, Idle

\* The phases of the publishes after one of them moves.
LEMMA PhaseMoves ==
  ASSUME NpmInv, NEW p \in Publishers, NEW to,
         \A q \in Publishers \ {p} : pub'[q] = pub[q], pub'[p].pc = to
  PROVE  [q \in Publishers |-> PhaseOf(pub[q].pc)]'
           = [[q \in Publishers |-> PhaseOf(pub[q].pc)] EXCEPT ![p] = PhaseOf(to)]
  OBVIOUS

LEMMA PromiseStep ==
  ASSUME NpmInv, Alone, HoldsCurrent, [Next]_vars, past' \subseteq {"again"}
  PROVE  Promise!Next \/ UNCHANGED Promise!vars
  <1>0. /\ pub \in [Publishers -> Publishing]
        /\ {"201", "409", "500", "recorded"} \subseteq PublishPcs
    BY DEF NpmInv, Typed, PublishPcs, Working
  <1> USE <1>0, PhaseValues
  <1> DEFINE index == packument.versions
             phase == [q \in Publishers |-> PhaseOf(pub[q].pc)]
  <1>1. ASSUME NEW p \in Publishers, NEW from, NEW to \in PublishPcs, Goto(p, from, to)
        PROVE  phase[p] = PhaseOf(from) /\ phase' = [phase EXCEPT ![p] = PhaseOf(to)]
    <2>1. pub[p].pc = from /\ pub' = [pub EXCEPT ![p].pc = to]
      BY <1>1 DEF Goto
    <2>2. pub'[p].pc = to /\ \A q \in Publishers \ {p} : pub'[q] = pub[q]
      BY <2>1, MoveType
    <2> QED
      BY <2>1, <2>2, PhaseMoves
  <1>2. ASSUME NEW p \in Publishers, NEW v \in Versions, NEW b \in Tarballs, NEW t \in Tags,
               Begin(p, v, b, t)
        PROVE  Promise!Begin(p)
    <2>1. /\ pub[p].pc = "idle" /\ pub'[p].pc = "read"
          /\ \A q \in Publishers \ {p} : pub'[q] = pub[q]
          /\ packument' = packument
      BY <1>2 DEF Begin, Idle
    <2>2. phase[p] = "idle" /\ phase' = [phase EXCEPT ![p] = "open"]
      BY <2>1, PhaseMoves
    <2> QED
      BY <2>1, <2>2 DEF Promise!Begin, Promise!Goto
  <1>3. ASSUME NEW p \in Publishers, Load(p) \/ StoreTarball(p) \/ MergeVersion(p)
        PROVE  UNCHANGED Promise!vars
    <2>1. /\ PhaseOf(pub'[p].pc) = PhaseOf(pub[p].pc)
          /\ \A q \in Publishers \ {p} : pub'[q] = pub[q]
          /\ packument' = packument
      <3>1. CASE Load(p)
        BY <3>1 DEF Load, Publishing
      <3>2. CASE StoreTarball(p)
        BY <3>2, MoveType DEF StoreTarball, Goto, PublishPcs, Working
      <3>3. CASE MergeVersion(p)
        BY <3>3 DEF MergeVersion, Publishing
      <3> QED
        BY <1>3, <3>1, <3>2, <3>3
    <2>2. phase' = phase
      BY <2>1
    <2> QED
      BY <2>1, <2>2 DEF Promise!vars
  <1>4. ASSUME NEW p \in Publishers, LoadFails(p) PROVE FALSE
    BY <1>4 DEF LoadFails
  <1>5. ASSUME NEW p \in Publishers, MergeConflict(p) \/ PublishFails(p)
        PROVE  Promise!Abort({p})
    <2>1. packument' = packument
      BY <1>5 DEF MergeConflict, PublishFails
    <2>2. phase[p] = "open" /\ phase' = [phase EXCEPT ![p] = "refused"]
      <3>1. Goto(p, "tarball", "500") \/ Goto(p, "write", "500") \/ Goto(p, "merge", "409")
        BY <1>5 DEF MergeConflict, PublishFails
      <3> QED
        BY <1>1, <3>1
    <2>3. phase' = [q \in Publishers |-> IF q \in {p} THEN "refused" ELSE phase[q]]
      BY <2>2
    <2> QED
      BY <2>1, <2>2, <2>3 DEF Promise!Abort
  \* The only publish at work adds its version to the list, which lacked it.
  <1>6. ASSUME NEW p \in Publishers, WritePackument(p)
        PROVE  /\ pub[p].version \in Versions /\ pub[p].tarball \in Tarballs
               /\ Promise!List(p, pub[p].version, pub[p].tarball)
    <2>1. pub[p].pc = "write" /\ Goto(p, "write", "recorded") /\ packument' = pub[p].stored
      BY <1>6 DEF WritePackument, Goto
    <2>2. pub[p].version \in Versions /\ pub[p].tarball \in Tarballs
      BY <2>1 DEF NpmInv, PublishesKnow
    <2>3. /\ index[pub[p].version] = None
          /\ index' = [index EXCEPT ![pub[p].version] = pub[p].tarball]
      BY <2>1 DEF HoldsCurrent
    <2>4. phase[p] = "open" /\ phase' = [phase EXCEPT ![p] = "listed"]
      BY <1>1, <2>1
    <2> QED
      BY <2>2, <2>3, <2>4 DEF Promise!List, Promise!Goto
  <1>7. ASSUME NEW p \in Publishers, Answer(p) PROVE Promise!Answer(p)
    <2>1. packument' = packument /\ Goto(p, "recorded", "201")
      BY <1>7 DEF Answer
    <2>2. phase[p] = "listed" /\ phase' = [phase EXCEPT ![p] = "created"]
      BY <1>1, <2>1
    <2> QED
      BY <2>1, <2>2 DEF Promise!Answer, Promise!Goto
  <1>8. ASSUME Crash
        PROVE  Promise!Abort({p \in Publishers : pub[p].pc \in Working})
    <2> DEFINE S == {p \in Publishers : pub[p].pc \in Working}
    <2>1. packument' = packument
      BY <1>8 DEF Crash
    <2>2. \A p \in S : phase[p] \in {"open", "listed"}
      BY DEF Working
    <2>3. \A p \in Publishers :
            pub'[p].pc = IF pub[p].pc \in Working THEN "lost" ELSE pub[p].pc
      BY <1>8, CrashType DEF Crash
    <2>4. phase' = [p \in Publishers |-> IF p \in S THEN "refused" ELSE phase[p]]
      BY <2>3
    <2> QED
      BY <2>1, <2>2, <2>4 DEF Promise!Abort
  <1>9. ASSUME UNCHANGED <<packument, pub>> PROVE UNCHANGED Promise!vars
    BY <1>9 DEF Promise!vars
  <1> QED
    BY <1>2, <1>3, <1>4, <1>5, <1>6, <1>7, <1>8, <1>9, StepKinds
       DEF Promise!Next, Resolve, Fetch, vars

\* Until publishes overlap or a read fails, every step of npm publish is one of
\* the version list or changes nothing of it: versions are added and stay, and a
\* publisher who is answered 201 has added one (npm/handler.go:251-309,
\* packument.go:51-99).
THEOREM PublishImplementsVersionIndex == Spec => ImplementsVersionIndex
  <1>1. Init => NpmInv /\ InTurn /\ Promise!Init
    BY NpmInit, InTurnInit, PromiseInit
  <1>2. NpmInv /\ InTurn /\ [Next]_vars => NpmInv' /\ InTurn'
    BY NpmStep, InTurnStep
  <1>3. NpmInv /\ InTurn /\ [Next]_vars =>
          [past' \subseteq {"again"} => Promise!Next \/ UNCHANGED Promise!vars]_vars
    <2> SUFFICES ASSUME NpmInv, InTurn, [Next]_vars, past' \subseteq {"again"}
                 PROVE  Promise!Next \/ UNCHANGED Promise!vars
      OBVIOUS
    <2>1. past \subseteq past'
      BY PastStays
    <2> QED
      BY <2>1, PromiseStep DEF InTurn
  <1> QED
    BY <1>1, <1>2, <1>3, PTL DEF Spec, ImplementsVersionIndex
=============================================================================
