------------------------------ MODULE ScpiUnits ------------------------------
(***************************************************************************)
(* Numbers with units in scpi-parser (units.c): the tables of the default  *)
(* build, and how a parameter becomes a number with a unit, or one of the  *)
(* special numbers, and is written again.                                  *)
(***************************************************************************)
EXTENDS ScpiNumber

(* scpi_units_def: name, unit, multiplier *)
scpi_units_def == <<
  <<"GY", "GRAY", "1">>, <<"BQ", "BECQUEREL", "1">>, <<"MOL", "MOLE", "1">>,
  <<"NSV", "SIEVERT", "1e-9">>, <<"USV", "SIEVERT", "1e-6">>, <<"MSV", "SIEVERT", "1e-3">>,
  <<"SV", "SIEVERT", "1">>, <<"KSV", "SIEVERT", "1e3">>, <<"MASV", "SIEVERT", "1e6">>,
  <<"EV", "ELECTRONVOLT", "1">>, <<"KEV", "ELECTRONVOLT", "1e3">>, <<"MAEV", "ELECTRONVOLT", "1e6">>,
  <<"GEV", "ELECTRONVOLT", "1e9">>, <<"TEV", "ELECTRONVOLT", "1e12">>, <<"U", "ATOMIC_MASS", "1">>,
  <<"DEG", "DEGREE", "1">>, <<"GON", "GRADE", "1">>, <<"MNT", "DEGREE", "1/60">>,
  <<"RAD", "RADIAN", "1">>, <<"SEC", "DEGREE", "1/3600">>, <<"REV", "REVOLUTION", "1">>,
  <<"RS", "STERADIAN", "1">>,
  <<"PF", "FARAD", "1e-12">>, <<"NF", "FARAD", "1e-9">>, <<"UF", "FARAD", "1e-6">>,
  <<"MF", "FARAD", "1e-3">>, <<"F", "FARAD", "1">>,
  <<"UA", "AMPER", "1e-6">>, <<"MA", "AMPER", "1e-3">>, <<"A", "AMPER", "1">>, <<"KA", "AMPER", "1e3">>,
  <<"UV", "VOLT", "1e-6">>, <<"MV", "VOLT", "1e-3">>, <<"V", "VOLT", "1">>, <<"KV", "VOLT", "1e3">>,
  <<"OHM", "OHM", "1">>, <<"KOHM", "OHM", "1e3">>, <<"MOHM", "OHM", "1e6">>,
  <<"UH", "HENRY", "1e-6">>, <<"MH", "HENRY", "1e-3">>, <<"H", "HENRY", "1">>,
  <<"C", "COULOMB", "1">>,
  <<"USIE", "SIEMENS", "1e-6">>, <<"MSIE", "SIEMENS", "1e-3">>, <<"SIE", "SIEMENS", "1">>,
  <<"J", "JOULE", "1">>, <<"KJ", "JOULE", "1e3">>, <<"MAJ", "JOULE", "1e6">>,
  <<"N", "NEWTON", "1">>, <<"KN", "NEWTON", "1e3">>,
  <<"ATM", "ATMOSPHERE", "1">>, <<"INHG", "INCH_OF_MERCURY", "1">>, <<"MMHG", "MM_OF_MERCURY", "1">>,
  <<"TORR", "TORT", "1">>, <<"BAR", "BAR", "1">>,
  <<"PAL", "PASCAL", "1">>, <<"KPAL", "PASCAL", "1e3">>, <<"MAPAL", "PASCAL", "1e6">>,
  <<"ST", "STROKES", "1">>, <<"P", "POISE", "1">>, <<"L", "LITER", "1">>,
  <<"MG", "KILOGRAM", "1e-6">>, <<"G", "KILOGRAM", "1e-3">>, <<"KG", "KILOGRAM", "1">>,
  <<"TNE", "KILOGRAM", "1000">>,
  <<"HZ", "HERTZ", "1">>, <<"KHZ", "HERTZ", "1e3">>, <<"MHZ", "HERTZ", "1e6">>, <<"GHZ", "HERTZ", "1e9">>,
  <<"ASU", "ASTRONOMIC_UNIT", "1">>, <<"PRS", "PARSEC", "1">>,
  <<"NM", "METER", "1e-9">>, <<"UM", "METER", "1e-6">>, <<"MM", "METER", "1e-3">>,
  <<"M", "METER", "1">>, <<"KM", "METER", "1e3">>,
  <<"LX", "LUX", "1">>, <<"LM", "LUMEN", "1">>, <<"CD", "CANDELA", "1">>, <<"WB", "WEBER", "1">>,
  <<"NT", "TESLA", "1e-9">>, <<"UT", "TESLA", "1e-6">>, <<"MT", "TESLA", "1e-3">>, <<"T", "TESLA", "1">>,
  <<"W", "WATT", "1">>, <<"DBM", "DBM", "1">>, <<"DBMW", "DBM", "1">>,
  <<"DB", "DECIBEL", "1">>, <<"PCT", "UNITLESS", "1e-2">>, <<"PPM", "UNITLESS", "1e-6">>,
  <<"CEL", "CELSIUS", "1">>, <<"K", "KELVIN", "1">>,
  <<"PS", "SECOND", "1e-12">>, <<"NS", "SECOND", "1e-9">>, <<"US", "SECOND", "1e-6">>,
  <<"MS", "SECOND", "1e-3">>, <<"S", "SECOND", "1">>, <<"MIN", "SECOND", "60">>, <<"HR", "SECOND", "3600">>,
  <<"D", "DAY", "1">>, <<"ANN", "YEAR", "1">> >>

scpi_special_numbers_def ==
  << Option("MIN", "MINIMUM", "MIN"), Option("MAX", "MAXIMUM", "MAX"), Option("DEF", "DEFAULT", "DEF"),
     Option("UP", "UP", "UP"), Option("DOWN", "DOWN", "DOWN"), Option("NAN", "NAN", "NAN"),
     Option("INF", "INFINITY", "INF"), Option("NINF", "NINF", "NINF"), Option("AUTO", "AUTO", "AUTO") >>

-----------------------------------------------------------------------------
(* A value with its unit and the multiplier of the unit that it was given in,
   or a special number. *)
Quantity(value, unit, mult) == [special |-> "", value |-> value, unit |-> unit, mult |-> mult]
Special(tag) == [special |-> tag, value |-> [mant |-> 0, exp |-> 0], unit |-> "NONE", mult |-> "1"]

(* The index in the table, or 0 *)
translateUnit(name) == First({i \in DOMAIN scpi_units_def : scpi_units_def[i][1] = name})

translateUnitInverse(unit) ==
  First({i \in DOMAIN scpi_units_def : scpi_units_def[i][2] = unit /\ scpi_units_def[i][3] = "1"})

(* transformNumber: the value read so far, with the suffix as its unit *)
transformNumber(r, value, suffix) ==
  LET k == translateUnit(suffix)
  IN  IF k = 0 THEN Failed(r, INVALID_SUFFIX)
      ELSE Read(r, Quantity(value, scpi_units_def[k][2], scpi_units_def[k][3]))

(* The suffix behind the number at the start of the token p *)
SuffixOf(d, p) ==
  LET number == DecimalNumericProgramData(d, p.first)
  IN  NameOf(Text(d, SuffixProgramData(d, skipWs(d, number.next))))

(* SCPI_ParamNumber: for a string, a block or an expression the result is
   FALSE and no error is pushed. *)
SCPI_ParamNumber(d, r) ==
  LET value == SCPI_ParamToDouble(d, r.param, LongWidth)
      special(c) == IF c.ok THEN Read(r, Special(c.val)) ELSE Failed(r, c.error)
  IN  CASE ~ r.ok -> Failed(r, r.error)
        [] r.ok /\ SCPI_ParamIsNumber(r.param, FALSE) -> Read(r, Quantity(value, "NONE", "1"))
        [] r.ok /\ r.param.type = "DECIMAL_WITH_SUFFIX" -> transformNumber(r, value, SuffixOf(d, r.param))
        [] r.ok /\ r.param.type = "MNEMONIC" ->
             special(SCPI_ParamToChoice(d, r.param, scpi_special_numbers_def))
        [] OTHER -> Failed(r, 0)

(* The unit that SCPI_NumberToStr writes behind the value, "" for none *)
UnitName(q) ==
  LET k == translateUnitInverse(q.unit)
  IN  IF k = 0 THEN "" ELSE scpi_units_def[k][1]

(* SCPI_ChoiceToName, of which SCPI_NumberToStr writes the name *)
SCPI_ChoiceToName(options, tag) == LET k == First({i \in DOMAIN options : options[i].tag = tag})
                                   IN  IF k = 0 THEN "" ELSE options[k].long
=============================================================================
