---------------------------- MODULE MCPassthrough ----------------------------
(* Two browsers and a download before a gate of one.                         *)
EXTENDS Passthrough

MCSizes == {0, 3, 5}

MCHeaders ==
    {NoHeader, Malformed}
      \cup [kind : {"from"}, a : {2, 5}]
      \cup [kind : {"between"}, a : {1, 3}, b : {2, 4, 6}]
      \cup [kind : {"last"}, n : {0, 1, 6}]
=============================================================================
