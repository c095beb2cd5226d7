-------------------------- MODULE MCControlPlaneAPI -------------------------
(***************************************************************************)
(* Small instances of ControlPlaneAPI: three origins, written with         *)
(* trailing slashes, surrounding space, blanks and repetitions.            *)
(***************************************************************************)
EXTENDS ControlPlaneAPI, TLC

MCTrimURL ==
  [u \in {"", "a", "b", "c", "ftp"} |-> u]
  @@ (" a/" :> "a") @@ ("b/" :> "b") @@ (" " :> "")

\* Three origins; an origin whose scheme is not supported; nothing but blanks.
MCConfigurations ==
  {<<" a/", "b", "a", " ", "c", "b/">>, <<"a", "b", "ftp">>, <<" ">>}
=============================================================================
