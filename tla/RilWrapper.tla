----------------------------- MODULE RilWrapper -----------------------------
(* libril-wrapper: a shim between rild and the vendor's RIL.  RIL_Init loads  *)
(* the vendor library with an OnRequestComplete of its own, which shortens    *)
(* the baseband version before rild gets it.                                  *)
(*                                                                            *)
(* A string is the sequence of its characters, told apart only as spaces and  *)
(* others; what rild gets is described by the places of the characters in the *)
(* vendor's string.                                                           *)
EXTENDS Integers, Sequences, FiniteSets

CONSTANTS MaxLength,   \* maxlenght
          MaxResponse  \* bound on the length of a version

VARIABLES lib,       \* the vendor library: closed or open
          functions, \* RIL_Init returned the vendor's functions
          vendor,    \* the response of the vendor, << >> for NULL or empty
          reply,     \* places rild gets, in order
          garbage    \* rild reads on behind them

vars == <<lib, functions, vendor, reply, garbage>>

Characters == {"space", "other"}
Strings == UNION {[1 .. n -> Characters] : n \in 0 .. MaxResponse}

Init ==
  /\ lib = "closed" /\ functions = FALSE
  /\ vendor = << >> /\ reply = << >> /\ garbage = FALSE

\* RIL_Init: dlopen fails, dlsym or the vendor's RIL_Init fails and the library
\* is closed again, or all succeed.
RilInit ==
  /\ ~functions
  /\ \/ lib' = "closed" /\ functions' = FALSE
     \/ lib' = "open" /\ functions' = TRUE
  /\ UNCHANGED <<vendor, reply, garbage>>

\* The loop over tempResponse: spaces are not counted.
Charcount(s) == Cardinality({m \in 1 .. Len(s) : s[m] # "space"})

\* do_not_handle: the response is passed on as it is.
Whole(s) == [m \in 1 .. Len(s) |-> m]

TooLong(s) == Charcount(s) - MaxLength > 0

\* RIL_REQUEST_BASEBAND_VERSION: MaxLength characters from newcharcount on.
Shortened(s) ==
  LET newcharcount == Charcount(s) - MaxLength
  IN  IF TooLong(s) THEN [m \in 1 .. MaxLength |-> newcharcount + m] ELSE Whole(s)

\* onRequestCompleteShim for the version and for any other request, or without
\* request information.  finalResponse has no room for a terminator: the stack
\* behind it may begin with a zero byte or not.
OnRequestComplete(s, version) ==
  /\ functions
  /\ vendor' = s
  /\ reply' = IF version THEN Shortened(s) ELSE Whole(s)
  /\ garbage' \in {FALSE, version /\ TooLong(s)}
  /\ UNCHANGED <<lib, functions>>

Next ==
  \/ RilInit
  \/ \E s \in Strings, version \in BOOLEAN : OnRequestComplete(s, version)

Spec == Init /\ [][Next]_vars

-----------------------------------------------------------------------------
\* The shim never copies from behind the end of the vendor's string: fewer
\* characters are counted than there are.
InBounds == \A m \in DOMAIN reply : reply[m] \in 1 .. Len(vendor)

\* "reduce the string lenght keeping the latest characters as they are the more
\* significant" (ril-wrapper.c): what rild gets ends with the last character.
KeepsLatest == vendor # << >> => reply # << >> /\ reply[Len(reply)] = Len(vendor)
=============================================================================
