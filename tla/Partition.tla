----------------------------- MODULE Partition -----------------------------
(***************************************************************************)
(* distributed/model.py and the collective maps of transport.py: which     *)
(* rank owns an entity, which entities a rank owns, and from these two     *)
(* formulas, computed apart from each other, the ghosts a rank receives    *)
(* and the lists its peers send.                                           *)
(***************************************************************************)
EXTENDS Integers

\* divmod(entities, world_size)
Base(E, W) == E \div W
Wider(E, W) == E % W

\* destination_owner
DestinationOwner(e, E, W) ==
  LET wide == (Base(E, W) + 1) * Wider(E, W)
  IN  IF e < wide THEN e \div (Base(E, W) + 1)
      ELSE IF Base(E, W) # 0 THEN Wider(E, W) + (e - wide) \div Base(E, W)
      ELSE Wider(E, W)

\* owned_range
OwnedBegin(E, W, r) ==
  r * Base(E, W) + (IF r < Wider(E, W) THEN r ELSE Wider(E, W))

OwnedEnd(E, W, r) ==
  OwnedBegin(E, W, r) + Base(E, W) + (IF r < Wider(E, W) THEN 1 ELSE 0)

OwnedRange(E, W, r) == OwnedBegin(E, W, r) .. (OwnedEnd(E, W, r) - 1)

\* derive_halo_map: the sources its rows name and it does not own, and of
\* these the ones each owner is asked for.  cols gives the sources of a row.
GhostIds(cols, E, W, r) ==
  (UNION {cols[d] : d \in OwnedRange(E, W, r)}) \ OwnedRange(E, W, r)

ReceiveFrom(cols, E, W, r, owner) ==
  {s \in GhostIds(cols, E, W, r) : DestinationOwner(s, E, W) = owner}

\* collective_halo_maps: peer_requests of an owner are what its peers receive
\* from it; derive_halo_map refuses one it does not own.
SendTo(cols, E, W, owner, peer) == ReceiveFrom(cols, E, W, peer, owner)

Refused(cols, E, W, owner) ==
  \E peer \in 0 .. (W - 1) :
    ~ (SendTo(cols, E, W, owner, peer) \subseteq OwnedRange(E, W, owner))
=============================================================================
