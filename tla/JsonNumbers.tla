----------------------------- MODULE JsonNumbers -----------------------------
(***************************************************************************)
(* Integers in JSON values as Boost.JSON keeps them: with the signedness   *)
(* they were stored with, until they are written out and parsed again.     *)
(***************************************************************************)
EXTENDS Integers

CONSTANT INT64_MAX      \* the largest int64_t

FromUnsigned(n) == [kind |-> "uint64", number |-> n]
FromSigned(n) == [kind |-> "int64", number |-> n]

\* serialize, then parse: text does not tell the two kinds apart, and the
\* parser takes the signed one whenever the number fits.
Reparsed(json) ==
  IF json.number <= INT64_MAX THEN FromSigned(json.number) ELSE json

\* as_uint64 and as_int64 return a number of exactly that kind, or throw.
as_uint64(json) == json.kind = "uint64"
as_int64(json) == json.kind = "int64"
==============================================================================
