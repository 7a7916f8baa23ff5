-------------------------- MODULE MCNmeaGenerator ---------------------------
(* NmeaGenerator with the satellites of main.c, and with few: a group of    *)
(* five that fills its places, one of one with places to spare.             *)
EXTENDS NmeaGenerator

FewTalkers == {"GP", "QZ"}
FewMaxCount == [GP |-> 5, QZ |-> 6]
FewPrns == [GP |-> <<4, 9, 8, 3, 27>>, QZ |-> <<2>>]
FewFirstSnr == [GP |-> <<2, 2, 0, 1, 2>>, QZ |-> <<1>>]
FewPlan == << <<"GGA", "GN">>, <<"GSA", "GP">>, <<"QSA", "QZ">>,
              <<"GSV", "GP">>, <<"GSV", "QZ">>, <<"GST", "GN">> >>

ShippedTalkers == {"GP", "GL", "QZ", "GA"}
ShippedMaxCount == [GP |-> 12, GL |-> 12, QZ |-> 12, GA |-> 12]
ShippedPrns == [GP |-> <<4, 9, 8, 3, 27, 16, 7, 42, 30, 14, 26, 1>>, GL |-> <<79>>,
                QZ |-> <<2, 3>>, GA |-> <<30, 8, 2, 3, 15>>]
ShippedFirstSnr == [GP |-> <<36, 43, 17, 19, 23, 38, 40, 0, 35, 0, 0, 0>>, GL |-> <<22>>,
                    QZ |-> <<32, 28>>, GA |-> <<34, 0, 34, 36, 19>>]
ShippedPlan == << <<"RMC", "GN">>, <<"GGA", "GN">>, <<"GSA", "GP">>, <<"GSA", "GL">>, <<"GSA", "GA">>,
                  <<"QSA", "QZ">>, <<"GSV", "GP">>, <<"GSV", "GL">>, <<"GSV", "QZ">>, <<"GSV", "GA">>,
                  <<"GST", "GN">> >>
=============================================================================
