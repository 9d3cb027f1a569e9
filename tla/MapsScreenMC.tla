---------------------------- MODULE MapsScreenMC ----------------------------
(***************************************************************************)
(* A small instance of MapsScreen: a near camera whose answer has one unit *)
(* postcode and a far one whose answer is a district.                      *)
(***************************************************************************)
EXTENDS MapsScreen, TLC

CONSTANTS near, far, bn1a, district, burglary

MCCameras == {near, far}
MCNear == {near}
MCTitles == {bn1a, district}
MCTitlesAt == (near :> {bn1a}) @@ (far :> {district})

\* One postcode and nothing far: what the liveness run needs.
LiveTitles == {bn1a}
LiveTitlesAt == (near :> {bn1a}) @@ (far :> {})
=============================================================================
