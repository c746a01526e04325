---------------------------- MODULE GatewayRequest ----------------------------
(***************************************************************************)
(* extractModel of src/internal/httpapi/api.go: which model a request      *)
(* names, and what is left of its body for the server it is forwarded to.  *)
(*                                                                         *)
(* A request has a method, the model of its query, a kind of body, the     *)
(* length it announces (-1 if it comes in chunks) and the body: a sequence *)
(* of parts of equal size, which are the name of a model or Filler.        *)
(***************************************************************************)
EXTENDS Integers, Sequences, SequencesExt

CONSTANTS MaxJSON,    \* parts of a JSON body that are read (GatewayMaxJSONBytes)
          MaxUpload,  \* parts of a form that are read (GatewayMaxUploadBytes)
          Filler,     \* a part that names no model
          NoModel     \* the empty string

(* A limit that is not positive in the configuration is replaced. *)
ASSUME LimitAssumption == MaxJSON \in Nat \ {0} /\ MaxUpload \in Nat \ {0}

Parsed(model, body) == [ok |-> TRUE, model |-> model, body |-> body]
Refused == [ok |-> FALSE, model |-> NoModel, body |-> <<>>]

Names(part) == part # Filler

(* The first value a form gives, or the given one. *)
FirstOr(parts, model) ==
    LET k == SelectInSeq(parts, Names) IN IF k = 0 THEN model ELSE parts[k]

LimitOf(kind) == IF kind = "json" THEN MaxJSON ELSE MaxUpload

(* io.ReadAll(io.LimitReader) *)
ReadUpTo(body, limit) == SubSeq(body, 1, Min({Len(body), limit}))

(* A JSON text or a multipart body that is cut off does not parse; an      *)
(* urlencoded form does, wherever it is cut between two parts.             *)
Parses(r, read) == r.valid /\ (r.kind = "urlencoded" \/ read = r.body)

(* Of a JSON object the last value counts, of a form the first; a form is  *)
(* looked through together with the query, which comes behind an           *)
(* urlencoded body and before a multipart one.                             *)
Found(r, read) ==
    CASE r.kind = "json" -> FirstOr(Reverse(read), NoModel)
      [] r.kind = "urlencoded" -> FirstOr(read, r.query)
      [] r.kind = "multipart" /\ r.query # NoModel -> r.query
      [] OTHER -> FirstOr(read, NoModel)

(* Mutant: what has been read to find the model is not put back. *)
ReadBody_NotPutBack(r) ==
    LET read == ReadUpTo(r.body, LimitOf(r.kind)) IN
    IF r.length > LimitOf(r.kind) \/ ~ Parses(r, read) THEN Refused ELSE Parsed(Found(r, read), <<>>)

(* The body is read, replaced by what was read, and looked through. *)
ReadBody(r) ==
    LET read == ReadUpTo(r.body, LimitOf(r.kind)) IN
    IF r.length > LimitOf(r.kind) \/ ~ Parses(r, read) THEN Refused ELSE Parsed(Found(r, read), read)

extractModel(r) ==
    IF r.method \in {"GET", "DELETE", "HEAD"} \/ r.length = 0 \/ r.kind = "other"
    THEN Parsed(r.query, r.body)
    ELSE ReadBody(r)

------------------------------------------------------------------------------
(* The bodies that slip through cut off: forms that come in chunks. *)
CutOff(r) ==
    /\ r.kind = "urlencoded" /\ r.length = -1 /\ r.method = "POST"
    /\ Len(r.body) > MaxUpload

(* A request that is not refused reaches its server with the body it came  *)
(* with, to the last byte, whether a body had to be read to find the model *)
(* or not; no valid request within the limits is refused; and it makes no  *)
(* difference whether its length is announced.  (The one exception is      *)
(* CutOff: the limit is meant to refuse, and cuts off.)                    *)
ForwardedWhole(r) ==
    LET result == extractModel(r)
        chunked == extractModel([r EXCEPT !.length = -1])
    IN CutOff([r EXCEPT !.length = -1]) \/
       /\ result.ok => result.body = r.body
       /\ r.valid /\ Len(r.body) <= LimitOf(r.kind) => result.ok
       /\ result.ok /\ r.valid => chunked = result
==============================================================================
