----------------------------- MODULE RpcMessage -----------------------------
(***************************************************************************)
(* The fields of the message that RPCs are sent in.  A string field is a   *)
(* pointer: to the one empty string that all unset fields of the process   *)
(* share, or to a string the message owns.  release_ hands that string to  *)
(* the caller and set_allocated_ takes one from it.                        *)
(*                                                                         *)
(* Operators marked "(mutation)" are altered forms of the definition that  *)
(* follows them; no specification uses them.                               *)
(***************************************************************************)
EXTENDS Naturals, FiniteSets

CONSTANTS
  String,      \* the strings the heap has room for
  EmptyString, \* the shared one, GetEmptyStringAlreadyInited()
  Text,        \* what callers write into strings
  EmptyText    \* the text of a cleared string

\* The least and the greatest.
MessageType == {1, 3}
ErrorCode   == {0, 6}
StringField == {"service", "method", "request", "response"}
NumberField == {"type", "id", "error"}

ASSUME StringAssumption == EmptyString \notin String
ASSUME TextAssumption   == EmptyText \in Text

VARIABLES
  has,      \* _has_bits_
  number,   \* type_, id_ and error_
  pointer,  \* service_, method_, request_ and response_
  text,     \* what is in each string
  callers   \* strings that callers own

rpcVars == <<has, number, pointer, text, callers>>

\* Strings that have not been deleted.
Owned == {pointer[f] : f \in StringField} \cap String
Live  == Owned \cup callers

RpcTypeOK ==
  /\ has \in SUBSET (StringField \cup NumberField)
  /\ number \in [NumberField -> Nat]
  /\ pointer \in [StringField -> String \cup {EmptyString}]
  /\ text \in [String \cup {EmptyString} -> Text]
  /\ callers \in SUBSET String

\* clear_type() sets REQUEST, clear_error() NO_ERROR.
Default == [type |-> 1, id |-> 0, error |-> 0]

RpcInit ==
  /\ has = {}
  /\ number = Default
  /\ pointer = [f \in StringField |-> EmptyString]
  /\ text = [s \in String \cup {EmptyString} |-> EmptyText]
  /\ callers = {}

-----------------------------------------------------------------------------
(* Numbers *)

NumberOf(f, values) ==
  /\ \/ /\ \E x \in values : number' = [number EXCEPT ![f] = x]
        /\ has' = has \cup {f}
     \/ /\ number' = [number EXCEPT ![f] = Default[f]]
        /\ has' = has \ {f}
  /\ UNCHANGED <<pointer, text, callers>>

\* The accessors of each field.
Type  == NumberOf("type", MessageType)
Ident == NumberOf("id", {1})
Error == NumberOf("error", ErrorCode)

-----------------------------------------------------------------------------
(* Strings *)

\* A set string goes on belonging to the message.
Clear(f) ==
  /\ IF pointer[f] # EmptyString
     THEN text' = [text EXCEPT ![pointer[f]] = EmptyText]
     ELSE UNCHANGED text
  /\ has' = has \ {f}
  /\ UNCHANGED <<number, pointer, callers>>

\* The string s is the field's own, made now if it has none.
Private(f, s) ==
  IF pointer[f] = EmptyString THEN s \in String \ Live ELSE s = pointer[f]

\* set_ with each of its parameter lists, and what a caller writes to the
\* string mutable_ returns.
Set(f, t) ==
  /\ has' = has \cup {f}
  /\ \E s \in String \cup {EmptyString} :
       /\ Private(f, s)
       /\ pointer' = [pointer EXCEPT ![f] = s]
       /\ text' = [text EXCEPT ![s] = t]
  /\ UNCHANGED <<number, callers>>

\* The field keeps the string it gives away (mutation).
ReleaseKept(f) ==
  /\ has' = has \ {f}
  /\ callers' = callers \cup ({pointer[f]} \ {EmptyString})
  /\ UNCHANGED <<number, pointer, text>>

Release(f) ==
  /\ has' = has \ {f}
  /\ callers' = callers \cup ({pointer[f]} \ {EmptyString})
  /\ pointer' = [pointer EXCEPT ![f] = EmptyString]
  /\ UNCHANGED <<number, text>>

SetAllocated(f) ==
  /\ \/ \E s \in callers :
          /\ has' = has \cup {f}
          /\ pointer' = [pointer EXCEPT ![f] = s]
          /\ callers' = callers \ {s}
     \/ /\ has' = has \ {f}
        /\ pointer' = [pointer EXCEPT ![f] = EmptyString]
        /\ UNCHANGED callers
  /\ UNCHANGED <<number, text>>

StringOf(f) ==
  Clear(f) \/ Release(f) \/ SetAllocated(f) \/ \E t \in Text : Set(f, t)

Service  == StringOf("service")
Method   == StringOf("method")
Request  == StringOf("request")
Response == StringOf("response")

(* Callers *)

CallerNews ==
  /\ \E s \in String \ Live, t \in Text :
       /\ callers' = callers \cup {s}
       /\ text' = [text EXCEPT ![s] = t]
  /\ UNCHANGED <<has, number, pointer>>

CallerDeletes ==
  /\ \E s \in callers : callers' = callers \ {s}
  /\ UNCHANGED <<has, number, pointer, text>>

RpcNext ==
  \/ Type \/ Ident \/ Error
  \/ Service \/ Method \/ Request \/ Response
  \/ CallerNews \/ CallerDeletes

RpcSpec == RpcInit /\ [][RpcNext]_rpcVars

-----------------------------------------------------------------------------
(* Properties *)

\* However strings go back and forth between the fields and callers, each has
\* one owner, who alone deletes it; nobody writes to the string that all
\* unset fields share; and a field that is not set reads as its default,
\* even when it still has a string.
StringsOwnedOnce ==
  /\ \A f \in StringField :
       /\ pointer[f] \notin callers
       /\ \A g \in StringField \ {f} :
            pointer[f] = pointer[g] => pointer[f] = EmptyString
       /\ f \notin has => text[pointer[f]] = EmptyText
  /\ \A f \in NumberField : f \notin has => number[f] = Default[f]
  /\ text[EmptyString] = EmptyText
=============================================================================
