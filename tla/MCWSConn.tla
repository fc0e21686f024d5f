------------------------------ MODULE MCWSConn ------------------------------
(* An instance of WSConn for TLC. *)
EXTENDS WSConn

\* Lengths on both sides of every boundary of the encoding come back, and
\* nothing over the limit is accepted.
ASSUME LengthsComeBack ==
  \A n \in {0, 1, 125, 126, 127, 128, 255, 256, 65535, 65536, 65537,
            maxWSPayload - 1, maxWSPayload, maxWSPayload + 1} :
    decodedLength(lengthCode(n)) = IF n <= maxWSPayload THEN n ELSE None
==============================================================================
