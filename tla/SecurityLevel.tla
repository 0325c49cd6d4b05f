---------------------------- MODULE SecurityLevel ----------------------------
(***************************************************************************)
(* The proofs of work of an identity, as the client finds them and as the  *)
(* server counts them.  A number is the set of the places of its ones, so  *)
(* that xor is the symmetric difference; the hash is any function.         *)
(***************************************************************************)
EXTENDS Integers, Sequences, FiniteSetsExt

CONSTANTS
  Bits,     \* 256
  Sha       \* SHA-256 on numbers

U256 == SUBSET (0..(Bits - 1))

Xor(a, b) == (a \ b) \cup (b \ a)
leading_zeros(v) == IF v = {} THEN Bits ELSE Bits - 1 - Max(v)

\* The hash of the uuid and the first i tokens.
Chain(uuid, tokens) ==
  LET curr[i \in 0..Len(tokens)] ==
        IF i = 0 THEN uuid ELSE Sha[Xor(curr[i - 1], tokens[i])]
  IN  curr

-----------------------------------------------------------------------------
(* The server.                                                             *)

Invalid == -1

\* The i-th hash begins with i zeros, no more and no less.
verified_security_level(uuid, hashes) ==
  IF \A i \in 1..Len(hashes) : leading_zeros(Chain(uuid, hashes)[i]) = i
  THEN Len(hashes) % 256
  ELSE Invalid

-----------------------------------------------------------------------------
(* The client.                                                             *)

\* Mutant: the search does not start behind the tokens there are.
CurrTokenUuid(uuid, tokens) == uuid

CurrToken(uuid, tokens) == Chain(uuid, tokens)[Len(tokens)]

\* Tokens are drawn until one has the level.
compute_single_lvl(base, new_lvl) ==
  {token \in U256 : leading_zeros(Sha[Xor(base, token)]) = new_lvl}

Longer(uuid, tokens) ==
  {Append(tokens, token) :
     token \in compute_single_lvl(CurrToken(uuid, tokens), Len(tokens) + 1)}

\* The lists of tokens the search may end with; if there is none it never ends.
generate_token_num(req_level, uuid, tokens) ==
  LET after[n \in 0..req_level] ==
        IF n <= Len(tokens) THEN {tokens}
        ELSE UNION {Longer(uuid, more) : more \in after[n - 1]}
  IN  after[req_level]
=============================================================================
