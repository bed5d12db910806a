-------------------------- MODULE FileServerProofs --------------------------
(***************************************************************************)
(* For any number of threads, of files and of chunks: a download of an id  *)
(* that a client was given is complete unless two threads have raced in    *)
(* the collection, and raced records every such race.  An upload belongs   *)
(* to one thread until it is answered, so that no thread writes to a file  *)
(* any more once its id is known, and by then it is in the map and what    *)
(* was written is flushed.                                                 *)
(***************************************************************************)
EXTENDS FileServer, TLAPS

Types == /\ server \in {"up", "dead"}
         /\ pc \in [Thread -> {"idle", "creating", "receiving", "finding",
                               "ended"}]
         /\ cur \in [Thread -> Int]
         /\ created \in 0 .. MaxFiles
         /\ raced \in BOOLEAN
         /\ written \in [File -> Nat]
         /\ flushed \in [File -> Nat]
         /\ answered \subseteq 1 .. created

Uploading(t) == pc[t] \in {"creating", "receiving"}

\* An upload has a file of its own, which no client knows of yet.
UploadsAreOwn ==
  /\ \A t \in Thread : Uploading(t) =>
       cur[t] \in 1 .. created /\ cur[t] \notin answered
  /\ \A t, u \in Thread :
       Uploading(t) /\ Uploading(u) /\ cur[t] = cur[u] => t = u

\* A file is in the map before its first chunk and stays there.
UploadsAreMapped ==
  ~raced => /\ \A t \in Thread : pc[t] = "receiving" => cur[t] \in m_uuid_map
            /\ answered \subseteq m_uuid_map

SearchesAreKnown == \A t \in Thread : pc[t] = "finding" => cur[t] \in answered

AnsweredAreFlushed == \A f \in answered : flushed[f] = written[f]

DownloadsAreKnown == \A d \in downloads : d[1] \in answered

\* A thread that changes the collection is alone in it.
RacesAreSeen ==
  ~raced => \A t, u \in Thread :
    pc[t] = "creating" /\ pc[u] \in {"creating", "finding"} => t = u

IInv == /\ Types /\ UploadsAreOwn /\ UploadsAreMapped /\ SearchesAreKnown
        /\ AnsweredAreFlushed /\ DownloadsAreKnown /\ RacesAreSeen
        /\ DownloadsComplete

-----------------------------------------------------------------------------
(* What a step does to the thread that takes it and to the others. *)

LEMMA GotoFacts ==
  ASSUME Types, NEW t \in Thread, NEW from,
         NEW to \in {"idle", "creating", "receiving", "finding", "ended"},
         Goto(t, from, to)
  PROVE  /\ pc[t] = from
         /\ \A u \in Thread : pc'[u] = IF u = t THEN to ELSE pc[u]
         /\ pc' \in [Thread -> {"idle", "creating", "receiving", "finding",
                                "ended"}]
BY DEF Goto, Types

\* A step that only ends a request, or the process, keeps everything.
LEMMA LeaveKeepsInvariant ==
  ASSUME IInv, NEW t \in Thread, NEW from, NEW to \in {"idle", "ended"},
         Goto(t, from, to), server' \in {"up", "dead"},
         UNCHANGED <<cur, fileVars, m_uuid_map, raced, answered, downloads>>
  PROVE  IInv'
<1>1. /\ Types /\ UploadsAreOwn /\ UploadsAreMapped /\ SearchesAreKnown
      /\ AnsweredAreFlushed /\ DownloadsAreKnown /\ RacesAreSeen
      /\ DownloadsComplete
  BY DEF IInv
<1>2. /\ \A u \in Thread : pc'[u] = IF u = t THEN to ELSE pc[u]
      /\ pc' \in [Thread -> {"idle", "creating", "receiving", "finding",
                             "ended"}]
  BY <1>1, GotoFacts
<1>3. /\ cur' = cur /\ created' = created /\ written' = written
      /\ flushed' = flushed /\ m_uuid_map' = m_uuid_map /\ raced' = raced
      /\ answered' = answered /\ downloads' = downloads
  BY DEF fileVars
<1>4. Types'
  BY <1>1, <1>2, <1>3 DEF Types
<1>5. UploadsAreOwn' /\ UploadsAreMapped' /\ SearchesAreKnown' /\ RacesAreSeen'
  BY <1>1, <1>2, <1>3
     DEF UploadsAreOwn, Uploading, UploadsAreMapped, SearchesAreKnown,
         RacesAreSeen
<1>6. AnsweredAreFlushed' /\ DownloadsAreKnown' /\ DownloadsComplete'
  BY <1>1, <1>3 DEF AnsweredAreFlushed, DownloadsAreKnown, DownloadsComplete
<1> QED BY <1>4, <1>5, <1>6 DEF IInv

-----------------------------------------------------------------------------
(* The steps. *)

\* The new file is nobody's.
LEMMA CreateFileInvariant ==
  ASSUME IInv, NEW t \in Thread, CreateFile(t)
  PROVE  IInv'
<1>1. /\ Types /\ UploadsAreOwn /\ UploadsAreMapped /\ SearchesAreKnown
      /\ AnsweredAreFlushed /\ DownloadsAreKnown /\ RacesAreSeen
      /\ DownloadsComplete
  BY DEF IInv
<1>2. /\ \A u \in Thread : pc'[u] = IF u = t THEN "creating" ELSE pc[u]
      /\ pc' \in [Thread -> {"idle", "creating", "receiving", "finding",
                             "ended"}]
      /\ pc[t] = "idle"
  BY <1>1, GotoFacts DEF CreateFile
<1>3. /\ created < MaxFiles /\ created' = created + 1
      /\ \A u \in Thread : cur'[u] = IF u = t THEN created + 1 ELSE cur[u]
      /\ server' = server /\ written' = written /\ flushed' = flushed
      /\ m_uuid_map' = m_uuid_map /\ answered' = answered
      /\ downloads' = downloads
      /\ raced' = (raced \/ Conflict(t, {"creating", "finding"}))
  BY <1>1 DEF CreateFile, Types
<1>4. Types'
  <2>1. created + 1 \in 0 .. MaxFiles /\ created \in Nat /\ created + 1 \in Int
    BY <1>1, <1>3, BoundsAssumption DEF Types
  <2>2. cur' \in [Thread -> Int]
    BY <1>1, <2>1 DEF CreateFile, Types
  <2>3. answered' \subseteq 1 .. created'
    BY <1>1, <1>3, <2>1 DEF Types
  <2> QED BY <1>1, <1>2, <1>3, <2>1, <2>2, <2>3 DEF Types, Conflict
<1>5. UploadsAreOwn'
  <2>1. /\ created \in Nat
        /\ 1 .. created' = (1 .. created) \union {created + 1}
        /\ created + 1 \notin 1 .. created
    BY <1>1, <1>3 DEF Types
  <2>2. answered \subseteq 1 .. created
    BY <1>1 DEF Types
  <2> QED BY <1>1, <1>2, <1>3, <2>1, <2>2 DEF UploadsAreOwn, Uploading
<1>6. UploadsAreMapped' /\ SearchesAreKnown' /\ RacesAreSeen'
  BY <1>1, <1>2, <1>3
     DEF UploadsAreMapped, SearchesAreKnown, RacesAreSeen, Conflict
<1>7. AnsweredAreFlushed' /\ DownloadsAreKnown' /\ DownloadsComplete'
  BY <1>1, <1>3 DEF AnsweredAreFlushed, DownloadsAreKnown, DownloadsComplete
<1> QED BY <1>4, <1>5, <1>6, <1>7 DEF IInv

\* Without a race the file is now in the map, and so are those that were.
LEMMA CreatedInvariant ==
  ASSUME IInv, NEW t \in Thread, Created(t)
  PROVE  IInv'
<1>1. /\ Types /\ UploadsAreOwn /\ UploadsAreMapped /\ SearchesAreKnown
      /\ AnsweredAreFlushed /\ DownloadsAreKnown /\ RacesAreSeen
      /\ DownloadsComplete
  BY DEF IInv
<1>2. /\ \A u \in Thread : pc'[u] = IF u = t THEN "receiving" ELSE pc[u]
      /\ pc' \in [Thread -> {"idle", "creating", "receiving", "finding",
                             "ended"}]
      /\ pc[t] = "creating"
  BY <1>1, GotoFacts DEF Created
<1>3. /\ cur' = cur /\ created' = created /\ written' = written
      /\ flushed' = flushed /\ raced' = raced
      /\ answered' = answered /\ downloads' = downloads
      /\ server' \in {"up", "dead"}
      /\ ~raced => m_uuid_map' = m_uuid_map \union {cur[t]}
  BY <1>1 DEF Created, fileVars, Types
<1>4. Types'
  BY <1>1, <1>2, <1>3 DEF Types
<1>5. UploadsAreOwn' /\ UploadsAreMapped' /\ SearchesAreKnown' /\ RacesAreSeen'
  BY <1>1, <1>2, <1>3
     DEF UploadsAreOwn, Uploading, UploadsAreMapped, SearchesAreKnown,
         RacesAreSeen
<1>6. AnsweredAreFlushed' /\ DownloadsAreKnown' /\ DownloadsComplete'
  BY <1>1, <1>3 DEF AnsweredAreFlushed, DownloadsAreKnown, DownloadsComplete
<1> QED BY <1>4, <1>5, <1>6 DEF IInv

LEMMA FindFileInvariant ==
  ASSUME IInv, NEW t \in Thread, NEW f \in File, FindFile(t, f)
  PROVE  IInv'
<1>1. /\ Types /\ UploadsAreOwn /\ UploadsAreMapped /\ SearchesAreKnown
      /\ AnsweredAreFlushed /\ DownloadsAreKnown /\ RacesAreSeen
      /\ DownloadsComplete
  BY DEF IInv
<1>2. /\ \A u \in Thread : pc'[u] = IF u = t THEN "finding" ELSE pc[u]
      /\ pc' \in [Thread -> {"idle", "creating", "receiving", "finding",
                             "ended"}]
      /\ pc[t] = "idle"
  BY <1>1, GotoFacts DEF FindFile
<1>3. /\ f \in answered
      /\ \A u \in Thread : cur'[u] = IF u = t THEN f ELSE cur[u]
      /\ server' = server /\ created' = created
      /\ written' = written /\ flushed' = flushed
      /\ m_uuid_map' = m_uuid_map /\ answered' = answered
      /\ downloads' = downloads
      /\ raced' = (raced \/ Conflict(t, {"creating"}))
  BY <1>1 DEF FindFile, Types, fileVars
<1>4. Types'
  <2>1. f \in Int
    BY BoundsAssumption DEF File
  <2>2. cur' \in [Thread -> Int]
    BY <1>1, <2>1 DEF FindFile, Types
  <2> QED BY <1>1, <1>2, <1>3, <2>2 DEF Types, Conflict
<1>5. UploadsAreOwn' /\ UploadsAreMapped' /\ SearchesAreKnown' /\ RacesAreSeen'
  BY <1>1, <1>2, <1>3
     DEF UploadsAreOwn, Uploading, UploadsAreMapped, SearchesAreKnown,
         RacesAreSeen, Conflict
<1>6. AnsweredAreFlushed' /\ DownloadsAreKnown' /\ DownloadsComplete'
  BY <1>1, <1>3 DEF AnsweredAreFlushed, DownloadsAreKnown, DownloadsComplete
<1> QED BY <1>4, <1>5, <1>6 DEF IInv

\* The file is answered: it is in the map and all of it is visible.
LEMMA FoundInvariant ==
  ASSUME IInv, NEW t \in Thread, Found(t)
  PROVE  IInv'
<1>1. /\ Types /\ UploadsAreOwn /\ UploadsAreMapped /\ SearchesAreKnown
      /\ AnsweredAreFlushed /\ DownloadsAreKnown /\ RacesAreSeen
      /\ DownloadsComplete
  BY DEF IInv
<1> DEFINE f == cur[t]
           got == IF f \in m_uuid_map THEN flushed[f] ELSE Missing
<1>2. /\ \A u \in Thread : pc'[u] = IF u = t THEN "idle" ELSE pc[u]
      /\ pc' \in [Thread -> {"idle", "creating", "receiving", "finding",
                             "ended"}]
      /\ pc[t] = "finding"
  BY <1>1, GotoFacts DEF Found
<1>3. /\ cur' = cur /\ created' = created /\ written' = written
      /\ flushed' = flushed /\ raced' = raced /\ m_uuid_map' = m_uuid_map
      /\ answered' = answered /\ server' \in {"up", "dead"}
      /\ downloads' = downloads \union {<<f, got>>}
  BY <1>1 DEF Found, fileVars, Types
<1>4. f \in answered /\ (~raced => got = written[f])
  BY <1>1, <1>2 DEF SearchesAreKnown, UploadsAreMapped, AnsweredAreFlushed
<1> HIDE DEF f, got
<1>5. Types'
  BY <1>1, <1>2, <1>3 DEF Types
<1>6. UploadsAreOwn' /\ UploadsAreMapped' /\ SearchesAreKnown' /\ RacesAreSeen'
  BY <1>1, <1>2, <1>3
     DEF UploadsAreOwn, Uploading, UploadsAreMapped, SearchesAreKnown,
         RacesAreSeen
<1>7. AnsweredAreFlushed' /\ DownloadsAreKnown' /\ DownloadsComplete'
  BY <1>1, <1>3, <1>4
     DEF AnsweredAreFlushed, DownloadsAreKnown, DownloadsComplete
<1> QED BY <1>5, <1>6, <1>7 DEF IInv

\* The file is not answered, so that no download is of it.
LEMMA OnDataInvariant ==
  ASSUME IInv, NEW t \in Thread, OnData(t)
  PROVE  IInv'
<1>1. /\ Types /\ UploadsAreOwn /\ UploadsAreMapped /\ SearchesAreKnown
      /\ AnsweredAreFlushed /\ DownloadsAreKnown /\ RacesAreSeen
      /\ DownloadsComplete
  BY DEF IInv
<1>2. /\ \A u \in Thread : pc'[u] = pc[u]
      /\ pc' \in [Thread -> {"idle", "creating", "receiving", "finding",
                             "ended"}]
      /\ pc[t] = "receiving"
  BY <1>1, GotoFacts DEF OnData
<1>3. /\ cur[t] \in File /\ cur[t] \notin answered
      /\ answered \subseteq File
  BY <1>1, <1>2, BoundsAssumption DEF UploadsAreOwn, Uploading, Types, File
<1>4. /\ cur' = cur /\ created' = created /\ server' = server
      /\ raced' = raced /\ m_uuid_map' = m_uuid_map
      /\ answered' = answered /\ downloads' = downloads
  BY DEF OnData
<1>5. /\ written' \in [File -> Nat] /\ flushed' \in [File -> Nat]
      /\ \A g \in File : g # cur[t] =>
           written'[g] = written[g] /\ flushed'[g] = flushed[g]
  <2>1. /\ written' = [written EXCEPT ![cur[t]] = @ + 1]
        /\ \E n \in flushed[cur[t]] .. written'[cur[t]] :
             flushed' = [flushed EXCEPT ![cur[t]] = n]
    BY DEF OnData
  <2>2. /\ written \in [File -> Nat] /\ flushed \in [File -> Nat]
    BY <1>1 DEF Types
  <2>3. written' \in [File -> Nat]
    BY <1>3, <2>1, <2>2
  <2>4. PICK n \in flushed[cur[t]] .. written'[cur[t]] :
          flushed' = [flushed EXCEPT ![cur[t]] = n]
    BY <2>1
  <2>5. n \in Nat
    BY <1>3, <2>2, <2>3
  <2> QED BY <1>3, <2>1, <2>2, <2>3, <2>4, <2>5
<1>6. Types'
  BY <1>1, <1>2, <1>4, <1>5 DEF Types
<1>7. UploadsAreOwn' /\ UploadsAreMapped' /\ SearchesAreKnown' /\ RacesAreSeen'
  BY <1>1, <1>2, <1>4
     DEF UploadsAreOwn, Uploading, UploadsAreMapped, SearchesAreKnown,
         RacesAreSeen
<1>8. AnsweredAreFlushed' /\ DownloadsAreKnown'
  BY <1>1, <1>3, <1>4, <1>5 DEF AnsweredAreFlushed, DownloadsAreKnown
<1>9. DownloadsComplete'
  <2>1. \A d \in downloads : written'[d[1]] = written[d[1]]
    BY <1>1, <1>3, <1>5 DEF DownloadsAreKnown
  <2> QED BY <1>1, <1>4, <2>1 DEF DownloadsComplete
<1> QED BY <1>6, <1>7, <1>8, <1>9 DEF IInv

\* No other thread writes to the file that is answered.
LEMMA OnEofInvariant ==
  ASSUME IInv, NEW t \in Thread, OnEof(t)
  PROVE  IInv'
<1>1. /\ Types /\ UploadsAreOwn /\ UploadsAreMapped /\ SearchesAreKnown
      /\ AnsweredAreFlushed /\ DownloadsAreKnown /\ RacesAreSeen
      /\ DownloadsComplete
  BY DEF IInv
<1>2. /\ \A u \in Thread : pc'[u] = IF u = t THEN "idle" ELSE pc[u]
      /\ pc' \in [Thread -> {"idle", "creating", "receiving", "finding",
                             "ended"}]
      /\ pc[t] = "receiving"
  BY <1>1, GotoFacts DEF OnEof
<1>3. /\ cur[t] \in 1 .. created /\ cur[t] \in File
      /\ answered \subseteq File
      /\ \A u \in Thread : Uploading(u) /\ u # t => cur[u] # cur[t]
  BY <1>1, <1>2, BoundsAssumption DEF UploadsAreOwn, Uploading, Types, File
<1>4. /\ cur' = cur /\ created' = created /\ server' = server
      /\ raced' = raced /\ m_uuid_map' = m_uuid_map
      /\ answered' = answered \union {cur[t]}
      /\ written' = written /\ downloads' = downloads
      /\ \A g \in File : flushed'[g] = IF g = cur[t] THEN written[g]
                                       ELSE flushed[g]
  BY <1>1 DEF OnEof, Types
<1>5. Types'
  <2>1. flushed' \in [File -> Nat]
    <3>1. written[cur[t]] \in Nat
      BY <1>1, <1>3 DEF Types
    <3> QED BY <1>1, <3>1 DEF OnEof, Types
  <2> QED BY <1>1, <1>2, <1>3, <1>4, <2>1 DEF Types
<1>6. UploadsAreOwn' /\ UploadsAreMapped' /\ SearchesAreKnown' /\ RacesAreSeen'
  BY <1>1, <1>2, <1>3, <1>4
     DEF UploadsAreOwn, Uploading, UploadsAreMapped, SearchesAreKnown,
         RacesAreSeen
<1>7. AnsweredAreFlushed' /\ DownloadsAreKnown' /\ DownloadsComplete'
  BY <1>1, <1>3, <1>4
     DEF AnsweredAreFlushed, DownloadsAreKnown, DownloadsComplete
<1> QED BY <1>5, <1>6, <1>7 DEF IInv

-----------------------------------------------------------------------------
LEMMA InitInvariant == Init => IInv
<1> SUFFICES ASSUME Init PROVE IInv
  OBVIOUS
<1>1. Types
  <2>1. 0 \in 0 .. MaxFiles
    BY BoundsAssumption
  <2>2. written \in [File -> Nat] /\ flushed \in [File -> Nat]
    BY DEF Init
  <2>3. raced \in BOOLEAN /\ server \in {"up", "dead"}
    BY DEF Init
  <2>4. /\ pc \in [Thread -> {"idle", "creating", "receiving", "finding",
                             "ended"}]
        /\ cur \in [Thread -> Int]
    BY DEF Init
  <2>5. answered \subseteq 1 .. created
    BY DEF Init
  <2> QED BY <2>1, <2>2, <2>3, <2>4, <2>5 DEF Init, Types
<1>2. UploadsAreOwn /\ UploadsAreMapped /\ SearchesAreKnown /\ RacesAreSeen
  BY DEF Init, UploadsAreOwn, Uploading, UploadsAreMapped, SearchesAreKnown,
         RacesAreSeen
<1>3. AnsweredAreFlushed /\ DownloadsAreKnown /\ DownloadsComplete
  BY DEF Init, AnsweredAreFlushed, DownloadsAreKnown, DownloadsComplete
<1> QED BY <1>1, <1>2, <1>3 DEF IInv

LEMMA NextInvariant == IInv /\ [Next]_vars => IInv'
<1> SUFFICES ASSUME IInv, [Next]_vars PROVE IInv'
  OBVIOUS
<1>1. ASSUME NEW t \in Thread, Found(t) PROVE IInv'
  BY <1>1, FoundInvariant
<1>2. ASSUME NEW t \in Thread, MalformedId(t) PROVE IInv'
  BY <1>2, LeaveKeepsInvariant DEF MalformedId
<1>3. ASSUME NEW t \in Thread, Aborted(t) PROVE IInv'
  <2>1. server' \in {"up", "dead"}
    BY <1>3 DEF Aborted, IInv, Types
  <2> QED BY <1>3, <2>1, LeaveKeepsInvariant DEF Aborted
<1>4. CASE UNCHANGED vars
  BY <1>4
     DEF vars, fileVars, IInv, Types, UploadsAreOwn, Uploading,
         UploadsAreMapped, SearchesAreKnown, AnsweredAreFlushed,
         DownloadsAreKnown, RacesAreSeen, DownloadsComplete
<1> QED BY <1>1, <1>2, <1>3, <1>4, CreateFileInvariant, CreatedInvariant,
           FindFileInvariant, OnDataInvariant, OnEofInvariant DEF Next

\* The invariant, with the two facts about the collection that the download
\* rests on: files in use are in the map, and races are seen.
THEOREM FileServerInvariance == Spec => []IInv
BY InitInvariant, NextInvariant, PTL DEF Spec

\* For any number of threads, files and chunks: unless threads have raced in
\* the collection, a download of an id a client was given delivers all that
\* was uploaded.
THEOREM DownloadsAreComplete == Spec => []DownloadsComplete
<1>1. IInv => DownloadsComplete
  BY DEF IInv
<1> QED BY <1>1, FileServerInvariance, PTL
=============================================================================
