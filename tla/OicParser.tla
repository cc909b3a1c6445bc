----------------------------- MODULE OicParser ------------------------------
(***************************************************************************)
(* The OIC parser of scpitest/lib (scpiparser.cpp) with the command tree   *)
(* of the environment server (env_scpiparser.cpp).                         *)
(*                                                                         *)
(* A message is a sequence of syllables: runs of characters that no name   *)
(* of the tree divides, and the separators ":", " " and ",".  The lengths  *)
(* under which names are registered are therefore in syllables too:        *)
(* "CHANNEL#" is <<"CH", "ANNE", "L", "#">>, and its first 6 characters    *)
(* are its first two syllables.  A number has its characters as syllables. *)
(***************************************************************************)
EXTENDS OicNumeric

(* A token: its kind (0 a part of the header, 1 a parameter), where it
   begins and its length.  A parameter of blanks at the end of the message
   begins one before the message (token_start is still -1). *)
Token(type, first, length) == [type |-> type, first |-> first, length |-> length]

(* The positions at which scpi_parse_string ends a token, in order *)
Ends(str, from, to, Sep) ==
  SetToSortSeq({i \in from .. to : str[i] \in Sep \/ i = Len(str)}, <)

Length(str, first, i) == (i - first) + (IF i = Len(str) THEN 1 ELSE 0)

(* scpi_parse_string: the header up to the first blank, then parameters. *)
scpi_parse_string(str) ==
  LET blank  == {i \in DOMAIN str : str[i] = " "}
      stop   == IF blank = {} THEN Len(str) ELSE Min(blank)
      header == Ends(str, 1, stop, {":", " "})
      params == Ends(str, stop + 1, Len(str), {","})
      after(ends, k, start) == IF k = 1 THEN start ELSE ends[k - 1] + 1
      first(k) == LET solid == {i \in after(params, k, stop + 1) .. params[k] : str[i] # " "}
                  IN  IF solid = {} THEN 0 ELSE Min(solid)
  IN  [k \in DOMAIN header |->
         Token(0, after(header, k, 1), Length(str, after(header, k, 1), header[k]))]
      \o
      [k \in DOMAIN params |-> Token(1, first(k), Length(str, first(k), params[k]))]

(* The characters of a token of the header *)
Text(str, t) == SubSeq(str, t.first, t.first + t.length - 1)

-----------------------------------------------------------------------------
(* The tree is the sequence of its commands in the order of registration.
   list is the command of which it is a child, 0 at the level of the root;
   a list is searched in that order. *)

scpi_register_command(tree, parent, location, long, longLength, short, shortLength, callback) ==
  Append(tree, [list     |-> IF location = "CHILD" THEN parent ELSE tree[parent].list,
                long     |-> SubSeq(long, 1, longLength),
                short    |-> SubSeq(short, 1, shortLength),
                name     |-> {long, short},
                callback |-> callback])

NoCallback == "none"

(* Commands are numbered: 1 the root, which has no name, 2 SYSTEM, ... *)
scpi_init ==
  LET t1 == <<[list |-> 0, long |-> <<>>, short |-> <<>>, name |-> {<<>>}, callback |-> NoCallback]>>
      t2 == scpi_register_command(t1, 1, "CHILD", <<"SYST", "EM">>, 2, <<"SYST">>, 1, NoCallback)
      t3 == scpi_register_command(t2, 2, "CHILD", <<"ERR", "OR">>, 2, <<"ERR">>, 1, NoCallback)
      t4 == scpi_register_command(t3, 2, "CHILD", <<"ERR", "OR", "?">>, 3, <<"ERR", "?">>, 2, "system_error")
  IN  scpi_register_command(t4, 3, "CHILD", <<"NEXT", "?">>, 2, <<"NEXT", "?">>, 2, "system_error")

(* scpi_setup: the tree of the environment server *)
scpi_setup ==
  LET temp == <<"TEMP", "ERATURE">>
      t1 == scpi_register_command(scpi_init, 1, "SAMELEVEL", <<"*", "IDN?">>, 2, <<"*", "IDN?">>, 2, "identify")
      t2 == scpi_register_command(t1, 1, "SAMELEVEL", <<"*", "ST", "OP">>, 3, <<"*", "ST", "P">>, 2, "send_stop")
      t3 == scpi_register_command(t2, 1, "CHILD", <<"MEAS", "URE">>, 2, <<"MEAS">>, 1, NoCallback)
      t4 == scpi_register_command(t3, 8, "CHILD", temp \o <<"?">>, 3, <<"TEMP", "?">>, 2, "get_temperature")
      t5 == scpi_register_command(t4, 8, "CHILD", temp \o <<"0", "?">>, 4, <<"TEMP", "0", "?">>, 3, "get_temperature_ch0")
      t6 == scpi_register_command(t5, 8, "CHILD", temp \o <<"1", "?">>, 4, <<"TEMP", "1", "?">>, 3, "get_temperature_ch1")
      t7 == scpi_register_command(t6, 8, "CHILD", temp \o <<"2", "?">>, 4, <<"TEMP", "2", "?">>, 3, "get_temperature_ch2")
      t8 == scpi_register_command(t7, 9, "CHILD", <<"CH", "ANNE", "L", "#">>, 2, <<"CH", "#">>, 1, "get_temperature_ch")
      t9 == scpi_register_command(t8, 8, "CHILD", <<"HUMI", "DITY", "?">>, 3, <<"HUMI", "?">>, 2, "get_humidity")
  IN  scpi_register_command(t9, 8, "CHILD", <<"LUMI", "NOSITY", "?">>, 3, <<"LUMI", "?">>, 2, "get_luminosity")

(* scpi_find_command: the number of the command, 0 when there is none.  Each
   token of the header is looked up in one list; the search does not go back. *)
scpi_find_command(tree, str) ==
  LET header == SelectSeq(scpi_parse_string(str), LAMBDA t : t.type = 0)
      matches(list, t) == {n \in DOMAIN tree : /\ tree[n].list = list
                                               /\ Text(str, t) \in {tree[n].long, tree[n].short}}
      found[k \in 1 .. Len(header)] ==
        LET m == CASE k = 1 -> matches(0, header[1])
                   [] k > 1 /\ found[k - 1] = 0 -> {}
                   [] OTHER -> matches(found[k - 1], header[k])
        IN  IF m = {} THEN 0 ELSE Min(m)
  IN  IF header = <<>> THEN 0 ELSE found[Len(header)]

-----------------------------------------------------------------------------
(* The callbacks: what they print, "crash" when they go through a null
   pointer. *)

Temperature == <<"0.1", "1.1", "2.1">>

(* strcmp looks at the rest of the message, not at the token. *)
get_temperature(str, params) ==
  LET rest == IF params = <<>> \/ params[1].first = 0 THEN <<>>
              ELSE SubSeq(str, params[1].first, Len(str))
  IN  CASE rest \in {<<"CH", "1">>, <<"1">>} -> {Temperature[2]}
        [] rest \in {<<"CH", "2">>, <<"2">>} -> {Temperature[3]}
        [] OTHER -> {Temperature[1]}

(* A token that begins before the message is read there: anything. *)
get_temperature_ch(str, params) ==
  CASE params = <<>> -> {"crash"}
    [] params # <<>> /\ params[1].first = 0 -> {Temperature[k] : k \in 1 .. 3}
    [] OTHER -> {Temperature[Min({chan, 2}) + 1] :
                   chan \in unsigned_char(scpi_parse_numeric(Text(str, params[1]), 0, 0, 2))}

(* What command n prints for message str; the error queue is empty. *)
Prints(tree, n, str) ==
  LET params == SelectSeq(scpi_parse_string(str), LAMBDA t : t.type = 1)
      c      == tree[n].callback
  IN  CASE c = "identify" -> {"EnvServ V1.1"}
        [] c = "send_stop" -> {"STOP done"}
        [] c = "system_error" -> {"     0,\"\""}
        [] c = "get_humidity" -> {"23.4"}
        [] c = "get_luminosity" -> {"2323"}
        [] c = "get_temperature_ch0" -> {Temperature[1]}
        [] c = "get_temperature_ch1" -> {Temperature[2]}
        [] c = "get_temperature_ch2" -> {Temperature[3]}
        [] c = "get_temperature" -> get_temperature(str, params)
        [] c = "get_temperature_ch" -> get_temperature_ch(str, params)
=============================================================================
