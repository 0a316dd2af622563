-------------------------- MODULE DeliverFeed --------------------------
(***************************************************************************)
(* How a feed that has been built replaces the one before it: deliverFeed  *)
(* and writeZip of libs/gtfs-output, called by gtfsmerge and by            *)
(* transxchange2gtfs, process after process, for one output.               *)
(*                                                                         *)
(* A directory is delivered by setting the old one aside and renaming the  *)
(* new one into its place, or copying it there across filesystems; a zip   *)
(* is written in place once the old one is unlinked.  Any call on the way  *)
(* may throw, those that undo a failure included, and the process may die  *)
(* between any two of them.                                                *)
(*                                                                         *)
(* A feed is its number and how many of its parts are there: the files of  *)
(* a directory, or the entries of a zip and then its central directory.    *)
(* The directory a feed was built in is not looked at again once a         *)
(* delivery has ended, and is left out.                                    *)
(***************************************************************************)
EXTENDS Naturals

CONSTANTS
  Parts,          \* how many parts a whole feed has
  Pids,           \* the process ids a delivery may run under
  MaxBuilds       \* bound: how many feeds are built

ASSUME PartsAssumption == Parts \in Nat \ {0, 1}

ASSUME MaxBuildsAssumption == MaxBuilds \in Nat

VARIABLES
  isZip,          \* whether the output's name ends in .zip
  apart,          \* whether the build directory is on another filesystem
  output,         \* what is at the output
  asides,         \* what is at <output>.replaced-<pid>
  pid,            \* the process delivering ...
  feed,           \* ... the feed it delivers ...
  state,          \* ... and how far it has come
  before,         \* what was at the output when it began
  delivered,      \* the last feed whose delivery returned
  torn            \* whether what is at the output was left so by a process that
                  \* died writing it, or by a call that was to undo a failure

options == <<isZip, apart>>
delivery == <<pid, feed, before>>
deliverVars == <<options, output, asides, delivery, state, delivered, torn>>

Nothing == [feed |-> 0, parts |-> 0]

Whole(place) == place.feed > 0 /\ place.parts = Parts

DeliverInit ==
  /\ isZip \in BOOLEAN
  /\ apart \in BOOLEAN
  /\ output = Nothing
  /\ asides = [p \in Pids |-> Nothing]
  /\ pid \in Pids
  /\ feed = 0
  /\ state = "ended"
  /\ before = Nothing
  /\ delivered = 0
  /\ torn = FALSE

DeliverFeed ==
  /\ state \in {"ended", "returned", "rejected"}
  /\ feed < MaxBuilds
  /\ feed' = feed + 1
  /\ pid' \in Pids
  /\ before' = output
  /\ state' = IF isZip THEN "measuring" ELSE "replacing"
  /\ UNCHANGED <<options, output, asides, delivered, torn>>

Returns ==
  /\ state' = "returned"
  /\ delivered' = feed

Rejects ==
  /\ state' = "rejected"
  /\ UNCHANGED delivered
-----------------------------------------------------------------------------
(***************************************************************************)
(* A directory.  Renaming over one that is not empty fails, so does moving *)
(* the output to where a process of the same pid left one.                 *)
(***************************************************************************)

(* A slip the runs must notice: the old output removed to make room. *)
RemoveTheOld ==
  /\ state = "replacing"
  /\ output # Nothing
  /\ output' = Nothing
  /\ state' = "moving"
  /\ UNCHANGED <<options, asides, delivery, delivered, torn>>

SetAside ==
  /\ state = "replacing"
  /\ output # Nothing
  /\ asides[pid] = Nothing
  /\ asides' = [asides EXCEPT ![pid] = output]
  /\ output' = Nothing
  /\ state' = "moving"
  /\ torn' = FALSE
  /\ UNCHANGED <<options, delivery, delivered>>

SetAsideFails ==
  /\ state = "replacing"
  /\ output # Nothing
  /\ Rejects
  /\ UNCHANGED <<options, output, asides, delivery, torn>>

NothingToReplace ==
  /\ state = "replacing"
  /\ output = Nothing
  /\ state' = "moving"
  /\ UNCHANGED <<options, output, asides, delivery, delivered, torn>>

HasSetAside == before # Nothing

(* What is left to do once the new feed is in place. *)
Moved ==
  IF HasSetAside
  THEN state' = "discarding" /\ UNCHANGED delivered
  ELSE Returns

Rename ==
  /\ state = "moving"
  /\ ~apart
  /\ output' = [feed |-> feed, parts |-> Parts]
  /\ Moved
  /\ torn' = FALSE
  /\ UNCHANGED <<options, asides, delivery>>

(* A slip the runs must notice: one file too many. *)
CopyOnceMore ==
  /\ state \in {"moving", "copying"}
  /\ apart
  /\ output.parts <= Parts
  /\ output' = [feed |-> feed, parts |-> output.parts + 1]
  /\ state' = "copying"
  /\ torn' = FALSE
  /\ UNCHANGED <<options, asides, delivery, delivered>>

(* EXDEV: cpSync, file by file. *)
Copy ==
  /\ state \in {"moving", "copying"}
  /\ apart
  /\ output.parts < Parts
  /\ output' = [feed |-> feed, parts |-> output.parts + 1]
  /\ state' = "copying"
  /\ torn' = FALSE
  /\ UNCHANGED <<options, asides, delivery, delivered>>

RemoveTheCopied ==
  /\ state = "copying"
  /\ output.parts = Parts
  /\ Moved
  /\ UNCHANGED <<options, output, asides, delivery, torn>>

MoveFails ==
  /\ state \in {"moving", "copying"}
  /\ IF HasSetAside THEN state' = "restoring" ELSE state' = "rejected"
  /\ UNCHANGED <<options, output, asides, delivery, delivered, torn>>

(* A slip the runs must notice: the failure is thrown and nothing put back. *)
RestoreNothing ==
  /\ state = "restoring"
  /\ Rejects
  /\ UNCHANGED <<options, output, asides, delivery, torn>>

(* A slip the runs must notice: the old feed put over what there is of the new. *)
RestoreOver ==
  /\ state = "restoring"
  /\ output' = asides[pid]
  /\ asides' = [asides EXCEPT ![pid] = Nothing]
  /\ Rejects
  /\ UNCHANGED <<options, delivery, torn>>

Restore ==
  /\ state = "restoring"
  /\ output = Nothing
  /\ output' = asides[pid]
  /\ asides' = [asides EXCEPT ![pid] = Nothing]
  /\ Rejects
  /\ UNCHANGED <<options, delivery, torn>>

(* It fails if there is part of the copy in its way, and may fail anyhow. *)
CannotRestore ==
  /\ state = "restoring"
  /\ Rejects
  /\ torn' = TRUE
  /\ UNCHANGED <<options, output, asides, delivery>>

Discard ==
  /\ state = "discarding"
  /\ asides' = [asides EXCEPT ![pid] = Nothing]
  /\ Returns
  /\ UNCHANGED <<options, output, delivery, torn>>

(* rmSync removes file by file. *)
PartOfTheAside ==
  \E parts \in 0 .. asides[pid].parts :
    asides' = [asides EXCEPT ![pid] =
                 IF parts = 0 THEN Nothing ELSE [feed |-> @.feed, parts |-> parts]]

DiscardFails ==
  /\ state = "discarding"
  /\ PartOfTheAside
  /\ Rejects
  /\ UNCHANGED <<options, output, delivery, torn>>
-----------------------------------------------------------------------------
(***************************************************************************)
(* A zip.  Every file is measured first; then the old archive goes.        *)
(***************************************************************************)

(* Or a file cannot be measured, or the old archive not be unlinked. *)
TooLarge ==
  /\ state = "measuring"
  /\ Rejects
  /\ UNCHANGED <<options, output, asides, delivery, torn>>

Unlink ==
  /\ state = "measuring"
  /\ output' = Nothing
  /\ state' = "zipping"
  /\ torn' = FALSE
  /\ UNCHANGED <<options, asides, delivery, delivered>>

WriteEntry ==
  /\ state = "zipping"
  /\ output.parts < Parts
  /\ output' = [feed |-> feed, parts |-> output.parts + 1]
  /\ UNCHANGED <<options, asides, delivery, state, delivered, torn>>

RemoveTheZipped ==
  /\ state = "zipping"
  /\ output.parts = Parts
  /\ Returns
  /\ UNCHANGED <<options, output, asides, delivery, torn>>

RemoveTheZippedFails ==
  /\ state = "zipping"
  /\ output.parts = Parts
  /\ Rejects
  /\ UNCHANGED <<options, output, asides, delivery, torn>>

(* A slip the runs must notice: the unfinished archive left at the output. *)
ZipFailsHalfWay ==
  /\ state = "zipping"
  /\ output.parts < Parts
  /\ Rejects
  /\ UNCHANGED <<options, output, asides, delivery, torn>>

(* An error of any write, and an archive that comes out too large: what *)
(* there is of it is removed ...                                         *)
ZipFails ==
  /\ state = "zipping"
  /\ output' = Nothing
  /\ Rejects
  /\ UNCHANGED <<options, asides, delivery, torn>>

(* ... unless that throws too. *)
CannotRemove ==
  /\ state = "zipping"
  /\ Rejects
  /\ torn' = TRUE
  /\ UNCHANGED <<options, output, asides, delivery>>
-----------------------------------------------------------------------------
Running == state \notin {"ended", "returned", "rejected"}

Dies ==
  /\ Running
  /\ state' = "ended"
  /\ torn' = (torn \/ state \in {"copying", "zipping"})
  /\ IF state = "discarding" THEN PartOfTheAside ELSE UNCHANGED asides
  /\ UNCHANGED <<options, output, delivery, delivered>>

DeliverNext ==
  \/ DeliverFeed
  \/ SetAside
  \/ SetAsideFails
  \/ NothingToReplace
  \/ Rename
  \/ Copy
  \/ RemoveTheCopied
  \/ MoveFails
  \/ Restore
  \/ CannotRestore
  \/ Discard
  \/ DiscardFails
  \/ TooLarge
  \/ Unlink
  \/ WriteEntry
  \/ RemoveTheZipped
  \/ RemoveTheZippedFails
  \/ ZipFails
  \/ CannotRemove
  \/ Dies

DeliverSpec == DeliverInit /\ [][DeliverNext]_deliverVars
-----------------------------------------------------------------------------
Places == {output} \cup {asides[p] : p \in Pids}

DeliveryTypeOK ==
  /\ isZip \in BOOLEAN
  /\ apart \in BOOLEAN
  /\ output \in [feed : 0 .. feed, parts : 0 .. Parts]
  /\ asides \in [Pids -> [feed : 0 .. feed, parts : 0 .. Parts]]
  /\ pid \in Pids
  /\ feed \in 0 .. MaxBuilds
  /\ state \in {"ended", "returned", "rejected", "replacing", "moving", "copying",
                "restoring", "discarding", "measuring", "zipping"}
  /\ before \in [feed : 0 .. feed, parts : 0 .. Parts]
  /\ delivered \in 0 .. feed
  /\ torn \in BOOLEAN

(***************************************************************************)
(* "Move it aside rather than delete it, so a failure below leaves         *)
(* something to go back to": once a directory has been delivered, a whole  *)
(* feed at least as new is at the output or beside it, whatever call       *)
(* failed, wherever the process died, and whoever comes next.              *)
(***************************************************************************)
SomethingToGoBackTo ==
  ~isZip /\ delivered > 0 =>
    \E place \in Places : Whole(place) /\ place.feed >= delivered

(***************************************************************************)
(* A delivery that is rejected leaves the output as it found it, or with   *)
(* the whole new feed.  A zip may also be gone, and there is part of the   *)
(* new one only if that could not be removed.  Of a directory there may be *)
(* part of a copy across filesystems, or nothing if it could not be put    *)
(* back; what was found is then as it was, set aside.                      *)
(***************************************************************************)
RejectedLeavesTheOutput ==
  state = "rejected" =>
    \/ output = before
    \/ Whole(output) /\ output.feed = feed
    \/ isZip /\ (output = Nothing \/ (torn /\ output.feed = feed))
    \/ /\ ~isZip
       /\ before = Nothing \/ asides[pid] = before
       /\ (torn /\ output = Nothing) \/ (apart /\ output.feed = feed)

(***************************************************************************)
(* Part of a feed is at the output only while it is being written there;   *)
(* or as a zip, where a process died writing it or could not remove it; or *)
(* as a directory, where a copy across filesystems failed or was cut       *)
(* short, or what that left behind was put back.                           *)
(***************************************************************************)
PartsOnlyWhereTorn ==
  (output # Nothing /\ ~Whole(output)) =>
    \/ state \in {"copying", "zipping"}
    \/ isZip /\ torn
    \/ ~isZip /\ apart

(***************************************************************************)
(* The output never goes back from one feed to an older one under a        *)
(* reader: putting the old one back needs the new one to be gone.          *)
(***************************************************************************)
NeverGoesBack ==
  [][output.feed > 0 /\ output'.feed > 0 => output'.feed >= output.feed]_deliverVars
==========================================================================
