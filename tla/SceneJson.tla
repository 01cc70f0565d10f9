------------------------------ MODULE SceneJson ------------------------------
(***************************************************************************)
(* JsonSceneList: what a list of scenes takes from the JSON document of a  *)
(* request (its constructor) and what it puts into the document of a       *)
(* response (to_msg_string).                                               *)
(*                                                                         *)
(* Both go through the members one after the other.  The tables below say, *)
(* for each member, the types that are accepted and the attribute it goes  *)
(* into or comes from; a member that is missing, or of another type, is    *)
(* passed over.  A JSON value is its type and an abstract value.  An array *)
(* of strings is the multiset of its elements, which says how often it     *)
(* holds each text: nothing that is done with one looks at the order.  The *)
(* devices of a scene are one value, NoText if there are none.             *)
(*                                                                         *)
(* A list is built without a value for event_destination_port (scene_list.h*)
(* line 56), and to_msg_string compares it with 0: every response but that *)
(* of a registration may or may not show a port.  No request shows one: it *)
(* is looked at only if it is a string (line 137), and GetInt of a string  *)
(* fails an assertion; such requests are left out.  So are negative        *)
(* numbers where they are written, which no response has.                  *)
(***************************************************************************)
EXTENDS Integers, Sequences, FiniteSetsExt

CONSTANTS
  DefaultRecords,   \* num_records of a new list, 10 in the code
  Words             \* texts that clients write

NoText == ""          \* a text without contents

Arrays == [Words -> Nat]
NoArray == [t \in Words |-> 0]
Elements(array) == {t \in Words : array[t] # 0}

Value(type, v) == [type |-> type, value |-> v]
Text(v) == Value("string", v)
Flag(v) == Value("bool", v)
Number(v) == Value("int", v)
Array(v) == Value("array", v)

Texts == {"string"}
Flags == {"bool"}
Ints == {"int"}
Numbers == {"int", "double"}
Lists == {"array"}
AnyType == {"string", "bool", "int", "double", "array", "object"}

-----------------------------------------------------------------------------
(* Reading. *)

Read(name, types, attribute) ==
  <<[name |-> name, types |-> types, attribute |-> attribute]>>
Reads(names, types) ==
  [i \in DOMAIN names |-> Read(names[i], types, names[i])[1]]

\* The password goes into the key and the IV into the salt.
ListReads ==
  Reads(<<"msg_type", "operation">>, Ints)
  \o Reads(<<"transaction_id">>, Texts)
  \o Read("encryption_password", Texts, "encryption_key")
  \o Reads(<<"encryption_salt", "encryption_key">>, Texts)
  \o Read("encryption_iv", Texts, "encryption_salt")
  \o Reads(<<"decryption_password", "decryption_salt", "decryption_key",
             "decryption_iv", "event_destination_host">>, Texts)
  \o Reads(<<"err_code">>, Ints) \o Reads(<<"err_msg">>, Texts)
  \o Reads(<<"num_records", "start_record">>, Ints)

\* The user is not read.  A transform that is no object is taken for one that
\* has no members.
SceneReads ==
  Reads(<<"key", "name", "description", "thumbnail">>, Texts)
  \o Reads(<<"active", "public">>, Flags) \o Read("private", Flags, "public")
  \o Reads(<<"region">>, Texts)
  \o Reads(<<"latitude", "longitude", "distance">>, Numbers)
  \o Reads(<<"assets", "tags">>, Lists)
  \o Reads(<<"transform">>, AnyType) \o Reads(<<"devices">>, Lists)

\* Without a key that is a string the device is dropped, whatever else it has.
DeviceReads ==
  Reads(<<"key", "connection_string", "hostname">>, Texts)
  \o Reads(<<"port">>, Ints) \o Reads(<<"transform">>, AnyType)
TakesDevice(m) == "key" \in DOMAIN m /\ m["key"].type \in Texts

Negated == [true |-> "false", false |-> "true"]
\* slip: private says what public says
TakenAsIs(row, m) == m[row.name].value
Taken(row, m) ==
  CASE row.name = "private" -> Negated[m[row.name].value]
    [] row.name = "transform" /\ m[row.name].type # "object" -> "identity"
    [] OTHER -> m[row.name].value

\* The attributes of x after the members of m were read: of two members that
\* go into the same attribute the later one counts.
Filled(x, reads, m) ==
  LET Hits(a) == {i \in DOMAIN reads :
        /\ reads[i].attribute = a
        /\ reads[i].name \in DOMAIN m
        /\ m[reads[i].name].type \in reads[i].types} IN
  [a \in DOMAIN x |->
     IF Hits(a) = {} THEN x[a] ELSE Taken(reads[Max(Hits(a))], m)]

-----------------------------------------------------------------------------
(* What the constructors leave. *)

NewList ==
  [msg_type |-> -1, operation |-> "APPEND", err_code |-> "NO_ERROR",
   err_msg |-> NoText, transaction_id |-> NoText,
   encryption_password |-> NoText, encryption_salt |-> NoText,
   encryption_key |-> NoText, encryption_iv |-> NoText,
   decryption_password |-> NoText, decryption_salt |-> NoText,
   decryption_key |-> NoText, decryption_iv |-> NoText,
   event_destination_host |-> NoText,
   num_records |-> DefaultRecords, start_record |-> 0]

NewScene ==
  [key |-> NoText, name |-> NoText, description |-> NoText, user |-> NoText,
   thumbnail |-> NoText, region |-> NoText, active |-> "true",
   public |-> "true", latitude |-> "-9999", longitude |-> "-9999",
   distance |-> "0", assets |-> NoArray, tags |-> NoArray, transform |-> NoText,
   devices |-> NoText]

NewDevice ==
  [key |-> NoText, connection_string |-> NoText, hostname |-> NoText,
   port |-> "999999", transform |-> NoText]

-----------------------------------------------------------------------------
(* Writing.  A member is left out if its attribute has one of some values. *)

Writes(names, type, omitted) ==
  {[name |-> n, type |-> type, omitted |-> omitted] : n \in names}

ListWrites ==
  Writes({"msg_type", "err_code", "num_records", "start_record"}, "int", {})
  \cup Writes({"err_msg", "transaction_id", "encryption_password",
               "encryption_salt", "encryption_key", "encryption_iv",
               "decryption_password", "decryption_salt", "decryption_key",
               "decryption_iv", "event_destination_host"}, "string", {NoText})

SceneWrites ==
  Writes({"key", "name", "description", "user", "thumbnail", "region"},
         "string", {NoText})
  \cup Writes({"active", "public"}, "bool", {})
  \cup Writes({"latitude", "longitude", "distance"}, "double", {"-9999", "below"})
  \cup Writes({"assets", "tags", "devices"}, "array", {})
  \cup Writes({"transform"}, "object", {NoText})

DeviceWrites ==
  Writes({"key", "connection_string", "hostname"}, "string", {NoText})
  \cup Writes({"port"}, "int", {"999999"})
  \cup Writes({"transform"}, "object", {NoText})

Written(x, writes) ==
  LET rows == {row \in writes : x[row.name] \notin row.omitted} IN
  [n \in {row.name : row \in rows} |->
     Value((CHOOSE row \in rows : row.name = n).type, x[n])]

\* How many scenes of the list are written, which is also what is written as
\* num_records: not more than the list's own num_records, unless that is -1.
Returned(list, scenes) ==
  IF list.num_records # -1 /\ list.num_records < scenes
  THEN list.num_records ELSE scenes

WrittenList(list, scenes) ==
  Written([list EXCEPT !.num_records = Returned(list, scenes)], ListWrites)

-----------------------------------------------------------------------------
(* What is written and read again.  The password comes back as the key, the *)
(* IV as the salt, the operation and the user not at all; the rest is what  *)
(* it was.                                                                  *)

SameBut(lost, x, y) == \A a \in DOMAIN x \ lost : x[a] = y[a]

ListReadsBack(list, scenes) ==
  LET back == Filled(NewList, ListReads, WrittenList(list, scenes)) IN
  /\ SameBut({"operation", "num_records", "encryption_password",
              "encryption_iv", "encryption_salt", "encryption_key"}, list, back)
  /\ back.num_records = Returned(list, scenes)
  /\ back.encryption_key = IF list.encryption_key # NoText THEN list.encryption_key
                           ELSE list.encryption_password
  /\ back.encryption_salt = IF list.encryption_iv # NoText THEN list.encryption_iv
                            ELSE list.encryption_salt

SceneReadsBack(scene) ==
  SameBut({"user"}, scene, Filled(NewScene, SceneReads, Written(scene, SceneWrites)))

\* A device without a key does not come back.
DeviceReadsBack(device) ==
  LET m == Written(device, DeviceWrites) IN
  /\ TakesDevice(m) <=> device.key # NoText
  /\ TakesDevice(m) => device = Filled(NewDevice, DeviceReads, m)
=============================================================================
