---------------------------- MODULE MCIngestion ----------------------------
(***************************************************************************)
(* Instances of Ingestion for TLC.                                         *)
(*                                                                         *)
(* Claim and Reclaim are two reconstructions of one historical event: same *)
(* event and run identity, another payload.  Bundle and Rebundle are one   *)
(* SDK finding bundle under two event identities, so one record identity   *)
(* and two record documents; only the second projects learning rows.       *)
(* Impostor has another payload and, by a digest collision, the record     *)
(* identity of Bundle.  Unsafe does not pass the screening.                *)
(***************************************************************************)
EXTENDS IngestionInvariants, TLC

MCClaim ==
  [event_id |-> "episode.failure", stream |-> "historical", run |-> "run1",
   payload |-> "path1", envelope |-> "redacted", rows |-> "failure1",
   clean |-> TRUE]

MCReclaim == [MCClaim EXCEPT !.payload = "path2", !.rows = "failure2"]

MCReclaimAgain == [MCClaim EXCEPT !.payload = "path3", !.rows = "failure3"]

MCBundle ==
  [event_id |-> "bundle1", stream |-> "sdk", run |-> "run1",
   payload |-> "findings", envelope |-> "redacted", rows |-> Absent,
   clean |-> TRUE]

MCRebundle == [MCBundle EXCEPT !.event_id = "bundle2", !.rows = "findings"]

MCImpostor == [MCBundle EXCEPT !.event_id = "bundle3", !.payload = "other"]

MCUnsafe ==
  [MCBundle EXCEPT !.event_id = "bundle4", !.payload = "secret", !.clean = FALSE]

\* A digest under which Impostor collides with Bundle and nothing else does.
MCDigest(preimage) ==
  IF preimage = <<MCImpostor.stream, MCImpostor.run, MCImpostor.payload>>
    THEN <<MCBundle.stream, MCBundle.run, MCBundle.payload>>
    ELSE preimage

MCClaims == {MCClaim, MCReclaim, MCUnsafe}
MCBundles == {MCBundle, MCRebundle, MCImpostor}
MCPair == {MCClaim, MCReclaim}
MCUnsafeOnly == {MCBundle, MCUnsafe}

\* Writers are interchangeable: no action tells one from another.
MCWriterSymmetry == Permutations(Writers)

MCHistorical == {"historical"}
=============================================================================
