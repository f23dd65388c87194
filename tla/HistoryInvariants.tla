-------------------------- MODULE HistoryInvariants --------------------------
(***************************************************************************)
(* The inductive invariant of the historical bootstrap: what is at hand of *)
(* a harvest between two requests, and what became of the events of an     *)
(* episode between two admissions.                                         *)
(***************************************************************************)
EXTENDS HistoricalBootstrap

WorldTyped ==
  /\ world = [commits |-> world.commits, signals |-> world.signals,
              attempts |-> world.attempts]
  /\ world.commits \in Seq(Revisions) /\ IsInjective(world.commits)
  /\ world.attempts \in [Runs -> Seq(Results \cup {Running})]
  /\ \A run \in Runs : Len(world.attempts[run]) <= MaxAttempts

BootSteps ==
  {"idle", "timeline", "commits", "runs", "jobs", "screen", "store", "project",
   "ingest", "done"}

\* A bootstrap under way has all of its fields.
BootShaped ==
  /\ boot.step \in BootSteps
  /\ boot.step # "idle" =>
       /\ boot = [step |-> boot.step, todo |-> boot.todo, events |-> boot.events,
                  answers |-> boot.answers, episodes |-> boot.episodes, h |-> boot.h]
       /\ boot.h = [signals |-> boot.h.signals, commits |-> boot.h.commits,
                    attempts |-> boot.h.attempts, jobs |-> boot.h.jobs,
                    lineage |-> boot.h.lineage]

(***************************************************************************)
(* The harvest.                                                            *)
(***************************************************************************)

\* Whose jobs are not at hand yet; and whose attempts, of these.
Unread == ToSet(boot.todo)

Unlisted == IF boot.step = "jobs" THEN ToSet(Tail(boot.todo)) ELSE Unread

AttemptKnown(a) ==
  /\ a.run \in Runs
  /\ a.number \in DOMAIN world.attempts[a.run]
  /\ a.run[1] \notin Unlisted
  /\ a.conclusion # None => world.attempts[a.run][a.number] # Running
  /\ a.missing \/ \A n \in 1..(a.number - 1) :
       \E b \in boot.h.attempts : Ref(b) = <<a.run, n>>
  /\ a.conclusion # None /\ a.run[1] \notin Unread =>
       {j.id : j \in JobsOf(a, boot.h)} = DOMAIN world.attempts[a.run][a.number]

JobKnown(j) ==
  /\ j.run \in Runs
  /\ j.number \in DOMAIN world.attempts[j.run]
  /\ j.id \in Jobs
  /\ j.run[1] \notin Unread

HarvestInv ==
  /\ boot.todo \in Seq(Revisions) /\ IsInjective(boot.todo)
  /\ boot.step \in {"timeline", "commits"} => boot.h.attempts = {} /\ boot.h.jobs = {}
  /\ boot.step = "jobs" => boot.todo # <<>>
  /\ boot.step \notin {"runs", "jobs"} => boot.todo = <<>>
  /\ IsFiniteSet(boot.h.attempts) /\ IsFiniteSet(boot.h.jobs)
  /\ \A a \in boot.h.attempts : AttemptKnown(a)
  /\ \A a, b \in boot.h.attempts : Ref(a) = Ref(b) => a = b
  /\ \A j \in boot.h.jobs : JobKnown(j)
  /\ \A j, k \in boot.h.jobs : JobRef(j) = JobRef(k) => j = k

(***************************************************************************)
(* Episodes and their events.                                              *)
(***************************************************************************)
Distinct(episodes) == \A d, e \in episodes : d.id = e.id => d = e

EventsFor(episodes) ==
  {Event(e, i) : e \in episodes, i \in DOMAIN EventKinds}

\* The events of an episode follow one another, up to the last.
InOrder(events, episodes) ==
  \A k \in DOMAIN events : \E e \in episodes, i \in DOMAIN EventKinds :
    /\ events[k] = Event(e, i)
    /\ i < Len(EventKinds) => k < Len(events) /\ events[k + 1] = Event(e, i + 1)
    /\ i = Len(EventKinds) /\ k < Len(events) =>
         \E d \in episodes : events[k + 1] = Event(d, 1)

EpisodesInv ==
  /\ IsFiniteSet(boot.episodes) /\ Distinct(boot.episodes)
  /\ boot.step # "ingest" => boot.events = <<>>
  /\ boot.step \notin {"ingest", "done"} => boot.answers = {}
  /\ boot.events \in Seq(EventsFor(boot.episodes))
  /\ InOrder(boot.events, boot.episodes)
  /\ boot.events # <<>> =>
       LET event == Head(boot.events)
       IN \/ event.id[2] = EventKinds[1]
          \/ \E i \in 2..Len(EventKinds) :
               /\ event.id[2] = EventKinds[i]
               /\ Record(Event(event.payload, i - 1)) \in records
  /\ \A answer \in boot.answers :
       /\ answer[1] \in {Record(event) : event \in EventsFor(boot.episodes)}
       /\ answer[1] \in records
       /\ answer[2] = "accepted" => answer[1] \in live
  /\ boot.step \in {"ingest", "done"} =>
       \A event \in EventsFor(boot.episodes) :
         \/ event \in ToSet(boot.events)
         \/ \E answer \in boot.answers : answer[1] = Record(event)

(***************************************************************************)
(* The corpus.                                                             *)
(***************************************************************************)
Claim(episode, i) == Record(Event(episode, i))

RecordsInv ==
  /\ live \subseteq records
  /\ \A c, d \in live : c.id = d.id => c = d
  /\ \A c \in records : \E i \in DOMAIN EventKinds :
       /\ c = Claim(c.payload, i)
       /\ i > 1 => Claim(c.payload, i - 1) \in records

Whole(episode, claims) == \A i \in DOMAIN EventKinds : Claim(episode, i) \in claims

\* The events of which episode are being admitted, and which one is next.
Halfway(episode, i) ==
  /\ boot.step = "ingest" /\ boot.events # <<>>
  /\ i > 1 /\ Head(boot.events) = Event(episode, i)

\* All of them were in the corpus, or those that are left are not and the
\* others are in force.
HalfwayOK(episode, i) ==
  \/ /\ Whole(episode, records)
     /\ \A c \in live : c.payload.id = episode.id => Whole(c.payload, live)
  \/ \A k \in DOMAIN EventKinds :
       IF k < i THEN Claim(episode, k) \in live ELSE Claim(episode, k) \notin records

\* The episodes whose events are being admitted.
Underway == IF boot.step = "ingest" THEN boot.episodes ELSE {}

WholeInv ==
  bounds.crashes = 0 =>
    /\ \A c \in records :
         Whole(c.payload, records) \/ \E i \in DOMAIN EventKinds : Halfway(c.payload, i)
    /\ \A c \in live :
         \/ Whole(c.payload, live)
         \/ \E e \in Underway, i \in DOMAIN EventKinds :
              Halfway(e, i) /\ e.id = c.payload.id
    /\ \A e \in Underway, i \in DOMAIN EventKinds : Halfway(e, i) => HalfwayOK(e, i)

(***************************************************************************)
(* What the episodes are judged by.                                        *)
(***************************************************************************)

\* What is at hand of an attempt and of a failed job is what became of it.
AttemptTrue(a) ==
  a.conclusion # None => a.conclusion = Conclusion(world.attempts[a.run][a.number])

JobTrue(j) ==
  /\ j.steps \in Seq(ToSet(j.steps))
  /\ j.conclusion = "failure" =>
       /\ world.attempts[j.run][j.number] # Running
       /\ Conclusion(world.attempts[j.run][j.number]) = "failure"

JudgedInv ==
  /\ world.signals \subseteq Signals
  /\ boot.step # "idle" =>
       /\ boot.h.signals \subseteq Signals /\ boot.h.commits \subseteq Revisions
       /\ \A a \in boot.h.attempts : AttemptTrue(a)
       /\ \A j \in boot.h.jobs : JobTrue(j)
  /\ boot.step = "store" =>
       /\ boot.episodes = Episodes(boot.h, Hashes[hash])
       /\ \A r \in boot.h.commits : ~Shape[r].secret

HistoryInv ==
  /\ WorldTyped
  /\ hash \in DOMAIN Hashes
  /\ bounds \in [changes : Nat, bootstraps : Nat, crashes : Nat]
  /\ BootShaped
  /\ boot.step # "idle" => HarvestInv /\ EpisodesInv
  /\ Distinct(derived)
  /\ RecordsInv
  /\ WholeInv
=============================================================================
