----------------------------- MODULE FileServer -----------------------------
(***************************************************************************)
(* The development server (tools/cppless_server/main.cpp): functions are   *)
(* uploaded with POST /functions/ and downloaded with GET /functions/:id.  *)
(* Each of its threads serves the streams of its own connections one at a  *)
(* time; all threads share temporary_file_collection, which nothing        *)
(* guards.  The clients are the environment; an id is known to clients     *)
(* only from the answer to its upload.                                     *)
(***************************************************************************)
EXTENDS Integers, FiniteSets

CONSTANTS
  Thread,         \* server.num_threads
  MaxFiles,       \* bound: uploads
  MaxChunks       \* bound: on_data calls of one upload

File == 1 .. MaxFiles

ASSUME BoundsAssumption == /\ IsFiniteSet(Thread)
                           /\ MaxFiles \in Nat
                           /\ MaxChunks \in Nat

VARIABLES
  server,         \* "up" or "dead"
  pc,             \* [Thread -> what the thread is doing]
  cur,            \* [Thread -> the file of its request]
  created,        \* files created so far
  m_uuid_map,     \* the files create_file has entered
  raced,          \* two threads were in the collection, one of them changing it
  written,        \* [File -> chunks written to its stream]
  flushed,        \* [File -> chunks a reader of the path can see]
  answered,       \* files whose id has been sent to the client
  downloads       \* pairs of a file and the chunks a download of it delivered

fileVars == <<created, written, flushed>>
vars == <<server, pc, cur, fileVars, m_uuid_map, raced, answered, downloads>>

Missing == -1     \* the download was answered with 404

Init == /\ server = "up"
        /\ pc = [t \in Thread |-> "idle"]
        /\ cur = [t \in Thread |-> 1]
        /\ created = 0
        /\ m_uuid_map = {}
        /\ raced = FALSE
        /\ written = [f \in File |-> 0]
        /\ flushed = [f \in File |-> 0]
        /\ answered = {}
        /\ downloads = {}

Goto(t, from, to) == /\ server = "up"
                     /\ pc[t] = from
                     /\ pc' = [pc EXCEPT ![t] = to]

-----------------------------------------------------------------------------
(* The collection.  Entering it while another thread changes it, or to change *)
(* it while another thread reads it, is a data race.                          *)

Conflict(t, kinds) == \E u \in Thread \ {t} : pc[u] \in kinds

\* fn_collection_cb, POST: create_file begins, with a fresh uuid.
CreateFile(t) ==
  /\ created < MaxFiles
  /\ Goto(t, "idle", "creating")
  /\ created' = created + 1
  /\ cur' = [cur EXCEPT ![t] = created']
  /\ raced' = (raced \/ Conflict(t, {"creating", "finding"}))
  /\ UNCHANGED <<server, written, flushed, m_uuid_map, answered, downloads>>

\* Faulty variant: the file is put into m_files only.
CreatedUnmapped(t) ==
  /\ Goto(t, "creating", "receiving")
  /\ UNCHANGED <<server, cur, fileVars, m_uuid_map, raced, answered, downloads>>

\* create_file returns and on_data is installed.  After a race any entry of the
\* map may be lost, or the process die.
Created(t) ==
  /\ Goto(t, "creating", "receiving")
  /\ IF raced
     THEN /\ \E lost \in SUBSET (m_uuid_map \union {cur[t]}) :
               m_uuid_map' = (m_uuid_map \union {cur[t]}) \ lost
          /\ server' \in {"up", "dead"}
     ELSE m_uuid_map' = m_uuid_map \union {cur[t]} /\ UNCHANGED server
  /\ UNCHANGED <<cur, fileVars, raced, answered, downloads>>

\* fn_element_cb, GET with an id that some upload was answered with.
FindFile(t, f) ==
  /\ f \in answered
  /\ Goto(t, "idle", "finding")
  /\ cur' = [cur EXCEPT ![t] = f]
  /\ raced' = (raced \/ Conflict(t, {"creating"}))
  /\ UNCHANGED <<server, fileVars, m_uuid_map, answered, downloads>>

\* find_file returns: the file is sent, or 404.
Found(t) ==
  /\ Goto(t, "finding", "idle")
  /\ LET f == cur[t] IN
     downloads' = downloads \union
       {<<f, IF f \in m_uuid_map THEN flushed[f] ELSE Missing>>}
  /\ IF raced THEN server' \in {"up", "dead"} ELSE UNCHANGED server
  /\ UNCHANGED <<cur, fileVars, m_uuid_map, raced, answered>>

\* An id that is no uuid: string_generator throws out of the callback, which
\* ends the thread of this connection or the process.
MalformedId(t) ==
  /\ Goto(t, "idle", "ended")
  /\ server' \in {"up", "dead"}
  /\ UNCHANGED <<cur, fileVars, m_uuid_map, raced, answered, downloads>>

-----------------------------------------------------------------------------
(* ostream_cb: the body of an upload arrives in chunks. *)

\* The stream's buffer may spill into the file at any write.
OnData(t) ==
  /\ Goto(t, "receiving", "receiving")
  /\ LET f == cur[t] IN
     /\ written[f] < MaxChunks
     /\ written' = [written EXCEPT ![f] = @ + 1]
     /\ \E n \in flushed[f] .. written'[f] :
          flushed' = [flushed EXCEPT ![f] = n]
  /\ UNCHANGED <<server, cur, created, m_uuid_map, raced, answered, downloads>>

\* Faulty variant: the stream is not flushed.
OnEofNoFlush(t) ==
  /\ Goto(t, "receiving", "idle")
  /\ answered' = answered \union {cur[t]}
  /\ UNCHANGED <<server, cur, fileVars, m_uuid_map, raced, downloads>>

\* A length of 0: eof_cb ends the response with the uuid and then flushes; the
\* response is not sent before the callback has returned.
OnEof(t) ==
  /\ Goto(t, "receiving", "idle")
  /\ answered' = answered \union {cur[t]}
  /\ flushed' = [flushed EXCEPT ![cur[t]] = written[cur[t]]]
  /\ UNCHANGED <<server, cur, created, written, m_uuid_map, raced, downloads>>

\* The client goes away in the middle: the file stays in the collection.
Aborted(t) ==
  /\ Goto(t, "receiving", "idle")
  /\ UNCHANGED <<server, cur, fileVars, m_uuid_map, raced, answered, downloads>>

Next == \E t \in Thread : \/ CreateFile(t) \/ Created(t)
                          \/ \E f \in File : FindFile(t, f)
                          \/ Found(t) \/ MalformedId(t)
                          \/ OnData(t) \/ OnEof(t) \/ Aborted(t)

Spec == Init /\ [][Next]_vars

-----------------------------------------------------------------------------
(* Properties. *)

\* Unless threads have raced in the collection, a download of an id a client was
\* given delivers all that was uploaded, whoever asks and however soon.
DownloadsComplete ==
  ~raced => \A d \in downloads : d[2] = written[d[1]]
=============================================================================
