--------------------------- MODULE MCSpelPayloads ---------------------------
(* Values for the constants of SpelPayloads that a cfg cannot write down. *)
EXTENDS SpelPayloads, Sequences

\* None, one, and around the sizes 6, 8 and 16 of the arrays of a packet
AroundTheArrays == {0, 1} \cup 5..9 \cup 15..17

\* Clouds of all shapes: full ones, without times, without positions; points that
\* need more and less than in a packet.  A payload has room for 8 points; sizes wrap
\* from 9 points on, and the number of points from 29.
SmallClouds ==
    [width : 0..6, height : 0..6, step : {2, 3, 5},
     fields : {Fields, Fields \ {"sec", "nsec"}, {"x", "y", "intensity"}}]

\* Up to a few seconds past the end of what a header can express
SomeInstants == 0 .. (2 * Half + 2) * Second

\* SpelDiagnostics without messages, for what the messages are made of
Text == INSTANCE SpelDiagnostics
            WITH Reports <- {}, source <- origin, phase <- stage, passes <- rounds

\* Numbers around the ends of one, two, four and eight bytes, and negative ones
Limits == {Text!Power(w) : w \in {1, 2, 4, 8}}
SomeNumbers == Limits \cup {n - 1 : n \in Limits}
               \cup {-Text!Power(8), 1 - Text!Power(8), -1, 0, 1, Base + 2, Text!Power(8) + 1}

Texts == {Text!Decimal(n) : n \in SomeNumbers}
         \cup {[Text!Decimal(n) EXCEPT !.blanks = TRUE] : n \in {1, Base}}
         \cup {Text!Dotted(s) : s \in {<<1, 2>>, <<1, 2, 3>>, <<1, Base, 3>>, <<3, 0, 1, 2>>}}
         \cup {Text!Word(w) : w \in {"", "unknown", Text!LongName}}

Keys == Text!Numbers \cup {"ip_address", "firmware_version", "product_name", "device_id"}

\* The status of the sample without its entries for a key, with others at its end
With(key, entries) ==
    [Text!Sample[1] EXCEPT !.values =
        SelectSeq(@, LAMBDA e : e.key # key) \o
        [i \in DOMAIN entries |-> Text!Entry(key, entries[i])]]

Lists == {<<>>} \cup {<<a>> : a \in Texts} \cup {<<a, b>> : a, b \in Texts}

Unnamed == [Text!Sample[1] EXCEPT !.name = "another"]
Other1  == With("cpu_usage", <<Text!Decimal(1)>>)

\* One key at a time has other entries; the status may be missing, be behind another
\* one or before one of the same name; the hardware_id may have to stand in.
SomeReports ==
    {<<With(key, entries)>> : key \in Keys, entries \in Lists}
    \cup {<<>>, <<Unnamed>>, <<Unnamed, Other1>>, <<Other1, Text!Sample[1]>>}
    \cup {<<[With("device_id", <<>>) EXCEPT !.hardware_id = t]>> :
             t \in {Text!Empty, Text!Word(Text!LongName),
                    [Text!Word("H2") EXCEPT !.blanks = TRUE]}}
=============================================================================
