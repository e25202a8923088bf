---------------------------- MODULE MCDerHeader -----------------------------
EXTENDS DerHeader

\* Tags and lengths where the form of a header changes.
MCHeaders ==
  [class : {0, 2, 3}, constructed : BOOLEAN,
   tag : {0, 16, 30, 31, 32, 127, 128, 16384, 65535},
   length : {0, 1, 127, 128, 256, 301}]

\* First octets of short and long tags, marked and unmarked digits, short,
\* long and illegal lengths.
MCForeign == UNION { [1 .. n -> {0, 2, 31, 48, 127, 128, 129, 131, 255}] : n \in 1 .. 4 }
             \cup { <<31, 255, 255, 127, 1, 7>>, <<31, 131, 255, 127, 1, 7>>,
                    <<31, 132, 128, 0, 1, 7>>, <<31, 128, 128, 128, 1, 7>> }

MCBehind == <<2, 129>>
=============================================================================
