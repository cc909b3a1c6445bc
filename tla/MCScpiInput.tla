---------------------------- MODULE MCScpiInput -----------------------------
(* ScpiInput on pieces of lines that can be put together in every order.   *)
EXTENDS ScpiInput

Header(h) == {h, <<":">> \o h}

Command(names, reads, more, writes, res) ==
  [names |-> names, reads |-> reads, more |-> more, writes |-> writes, res |-> res]

(* M reads a number and up to two more, MM fails, A:Q? answers with a block in
   two parts and a value, M:Q? announces less than it gives, Q? has two
   results. *)
MCCommands ==
  << Command(Header(<<"M">>), 1, 2, <<>>, "OK"),
     Command(Header(<<"M", "M">>), 0, 0, <<>>, "ERR"),
     Command(Header(<<"A", ":", "Q", "?">>), 0, 0, <<Block(2, <<1, 1>>), Value>>, "OK"),
     Command(Header(<<"M", ":", "Q", "?">>), 0, 0, <<Block(1, <<2>>)>>, "OK"),
     Command(Header(<<"Q", "?">>), 0, 0, <<Value, Value>>, "OK") >>

(* Headers, parameters and line ends; the data of a block in pieces, a
   fraction without digits before the point, CR and LF apart. *)
MCChunks ==
  { <<"M">>, <<" ", "1">>, <<",", ".", "2">>, <<";">>, <<"cr">>, <<"nl", "M">>, <<"A", ":", "Q", "?">>,
    <<"Q", "?">>, <<"M", ":", "Q", "?">>, <<" ", "#", "1", "1">> }

(* Pieces with blanks before a comma. *)
BlankChunks == { <<"M", " ", "1">>, <<" ", " ", ",", "2">>, <<"nl">>, <<";">> }

(* What OneErrorPerUnit and AnswersSeparated take for granted of a command
   table *)
ASSUME OneOwnAssumption == AtMostOneOwn
ASSUME BlocksFirstAssumption == BlocksFirst
=============================================================================
