------------------------------ MODULE MCIngest ------------------------------
(***************************************************************************)
(* Instances of Ingest: three ranked packages of which two depend on each  *)
(* other and on an unranked one, held by one account and by two.  A torn   *)
(* line of is-array-buffer can spell is-array, by itself or when the line  *)
(* of array joins it.                                                      *)
(***************************************************************************)
EXTENDS Ingest

CONSTANTS ann, bob

array         == <<"array">>
isArray       == <<"is-", "array">>
isArrayBuffer == <<"is-", "array", "-buffer">>
callBind      == <<"call-bind">>

MCPieces == {"is-", "array", "-buffer", "call-bind"}
Three == {array, isArray, isArrayBuffer}
MCRanking == <<isArrayBuffer, array, isArray>>
MCPackages == Three \cup {callBind}
MCDeps == [n \in Three |-> CASE n = isArray       -> {callBind}
                             [] n = isArrayBuffer -> {isArray}
                             [] n = array         -> {}]
MCHolders == [n \in Three |-> IF n = isArrayBuffer THEN {ann, bob} ELSE {ann}]

Two == {isArray, isArrayBuffer}
TwoRanking == <<isArrayBuffer, isArray>>
TwoDeps == [n \in Two |-> IF n = isArrayBuffer THEN {isArray} ELSE {callBind}]
TwoHolders == [n \in Two |-> {ann}]
=============================================================================
