-------------------------------- MODULE Lzw --------------------------------
(***************************************************************************)
(* lzw_decode () of libgeotiff/lzw.c, and the encoder it is to undo.       *)
(* Codes are read from a stream of bits; their width grows as the          *)
(* dictionary fills.  Encoder and decoder keep a dictionary each, the      *)
(* decoder's one entry behind, and never exchange it: they must agree on   *)
(* when the width grows and when both start again.                         *)
(***************************************************************************)
EXTENDS Integers, Sequences, SequencesExt

CONSTANTS
  Chars,        \* how many characters: 256
  MinWidth,     \* of a code, in bits: 9
  MaxWidth,     \* 12
  ByteBits,     \* bits in a byte, fewer than MinWidth: 8
  Texts,        \* model bound: the texts
  Restarts      \* model bound: after how many codes an encoder may start again

ClearCode == Chars
EoiCode == Chars + 1
FirstCode == Chars + 2
MaxCode == 2^MaxWidth - 1

EOF == 2^(MaxWidth + 1)      \* (unsigned int) -1: above any code

\* The members of the arrays of dictionary.
Entries == FirstCode..(MaxCode - 1)
-----------------------------------------------------------------------------
(***************************************************************************)
(* The encoder, as TIFF has it: a code is widened as soon as the entry     *)
(* 2^width - 1 is added, and the dictionary dropped at entry MaxCode - 1.  *)
(* An encoder may drop it at any time, and does so here after `restart'    *)
(* codes.                                                                  *)
(***************************************************************************)
Bits(code, width) == [i \in 1..width |-> (code \div 2^(width - i)) % 2]

WidthFor(entries) ==
  CHOOSE w \in MinWidth..MaxWidth :
    FirstCode + entries < 2^w /\ \A u \in MinWidth..(w - 1) : FirstCode + entries >= 2^u

CodeOf(e, s) ==
  IF Len(s) = 1 THEN s[1] ELSE FirstCode - 1 + CHOOSE i \in 1..Len(e.table) : e.table[i] = s

Write(e, code) == [e EXCEPT !.bits = @ \o Bits(code, WidthFor(Len(e.table)))]

\* The code of s, and the entry that comes with it.
WriteString(e, s, entry) ==
  LET w == [Write(e, CodeOf(e, s)) EXCEPT !.table = Append(@, entry), !.codes = @ + 1]
  IN  IF FirstCode + Len(w.table) = MaxCode \/ w.codes = w.restart
      THEN [Write(w, ClearCode) EXCEPT !.table = <<>>]
      ELSE w

EncodeChar(e, k) ==
  LET s == Append(e.omega, k)
  IN  IF Len(s) = 1 \/ \E i \in 1..Len(e.table) : e.table[i] = s
      THEN [e EXCEPT !.omega = s]
      ELSE [WriteString(e, e.omega, s) EXCEPT !.omega = <<k>>]

\* The last code counts as one that brings an entry.
Encode(text, restart) ==
  LET e == FoldLeft(EncodeChar,
                    [bits |-> Bits(ClearCode, MinWidth), table |-> <<>>, omega |-> <<>>,
                     codes |-> 0, restart |-> restart],
                    text)
      bits == Write(WriteString(e, e.omega, <<>>), EoiCode).bits
  IN  bits \o [i \in 1..((-Len(bits)) % ByteBits) |-> 0]
-----------------------------------------------------------------------------
VARIABLES
  text, stream, room,   \* what was encoded; encoding, of len bytes; outlen
  seek,
  mode,                 \* the first code, the first after a Clear, or another
  width, next, last, firstchar,   \* code_len, next, last, firstchar
  dictionary,
  out,
  result

vars == <<text, stream, room, seek, mode, width, next, last, firstchar, dictionary, out, result>>

Cut(s, bytes) == SubSeq(s, 1, Len(s) - bytes * ByteBits)

Init ==
  /\ text \in Texts
  /\ \E restart \in Restarts, bytes \in 0..1 : stream = Cut(Encode(text, restart), bytes)
  /\ room \in (Len(text) - 1)..(Len(text) + 1)
  /\ seek = 0 /\ mode = "first" /\ width = MinWidth
  /\ next = FirstCode /\ last = 0 /\ firstchar = 0
  /\ dictionary = [c \in {} |-> 0]
  /\ out = <<>> /\ result = "running"

\* get_code (): the most significant bit first.
Ahead(s) ==
  IF Len(stream) - s < width THEN EOF
  ELSE FoldLeft(LAMBDA code, b : 2 * code + b, 0, SubSeq(stream, s + 1, s + width))

GetCode == Ahead(seek)
Seek == seek' = IF GetCode = EOF THEN seek ELSE seek + width

Return(r) == result' = r
Running == result = "running"
ToCome == <<text, stream, room>>
Codes == <<width, next, last, firstchar, dictionary>>

\* After EOI: nothing but the rest of a byte may come.
Ended ==
  IF Ahead(seek + width) # EOF THEN "incomplete read"
  ELSE IF Len(out) = room THEN "success" ELSE "output mismatch"

Give(s) ==
  /\ out' = out \o SubSeq(s, 1, IF Len(s) =< room - Len(out) THEN Len(s) ELSE room - Len(out))
  /\ Return(IF Len(s) =< room - Len(out) THEN "running" ELSE "out of memory")

\* A character by itself, not to be found in the dictionary.
Single(c) ==
  /\ Give(<<c>>)
  /\ last' = c /\ firstchar' = c
  /\ mode' = "codes"
  /\ UNCHANGED <<width, next, dictionary>>

SkipClear ==
  /\ Running /\ mode # "codes" /\ GetCode = ClearCode
  /\ Seek
  /\ UNCHANGED <<ToCome, mode, Codes, out, result>>

First ==
  /\ Running /\ mode = "first" /\ GetCode # ClearCode
  /\ Seek
  /\ IF GetCode < Chars THEN Single(GetCode)
     ELSE Return("wrong encoding") /\ UNCHANGED <<mode, Codes, out>>
  /\ UNCHANGED ToCome

FirstAgain ==
  /\ Running /\ mode = "restart" /\ GetCode # ClearCode
  /\ Seek
  /\ IF GetCode < Chars THEN Single(GetCode)
     ELSE /\ Return(CASE GetCode = EoiCode -> Ended
                      [] GetCode = EOF -> "no EOI"
                      [] OTHER -> "wrong encoding")
          /\ UNCHANGED <<mode, Codes, out>>
  /\ UNCHANGED ToCome

Stop ==
  /\ Running /\ mode = "codes"
  /\ GetCode = EOF \/ GetCode > next \/ GetCode = EoiCode
  /\ Seek
  /\ Return(IF GetCode = EOF THEN "no EOI" ELSE IF GetCode > next THEN "wrong encoding" ELSE Ended)
  /\ UNCHANGED <<ToCome, mode, Codes, out>>

Clear ==
  /\ Running /\ mode = "codes" /\ GetCode = ClearCode
  /\ Seek
  /\ mode' = "restart" /\ next' = FirstCode /\ width' = MinWidth
  /\ UNCHANGED <<ToCome, last, firstchar, dictionary, out, result>>

\* The string of a code: prefixes are followed down to a character.
StringOf(code) ==
  LET back[n \in 0..MaxCode] ==
        IF n = 0 THEN <<code>>
        ELSE LET s == back[n - 1]
             IN  IF s[1] < FirstCode THEN s
                 ELSE <<dictionary[s[1]].prefix, dictionary[s[1]].suffix>> \o Tail(s)
  IN  back[next - FirstCode + 1]

\* Faulty variant for a mutation run: the width grows with the entry that does
\* not fit, as it does for other uses of LZW.
Wider_Late(w, n) == IF 2^w = n /\ w < MaxWidth THEN w + 1 ELSE w

\* One entry early: the encoder's dictionary is one ahead.
Wider(w, n) == IF 2^w - 1 = n /\ w < MaxWidth THEN w + 1 ELSE w

\* A string; next stands for the one before it and its first character.
Expand ==
  /\ Running /\ mode = "codes"
  /\ GetCode =< next /\ GetCode \notin {ClearCode, EoiCode}
  /\ Seek
  /\ LET s == IF GetCode = next THEN StringOf(last) \o <<firstchar>> ELSE StringOf(GetCode)
         fits == next =< MaxCode
     IN  /\ Give(s)
         /\ firstchar' = s[1]
         /\ dictionary' = IF fits
                          THEN [c \in FirstCode..next |->
                                  IF c = next THEN [prefix |-> last, suffix |-> s[1]] ELSE dictionary[c]]
                          ELSE dictionary
         /\ next' = IF fits THEN next + 1 ELSE next
         /\ width' = IF fits THEN Wider(width, next + 1) ELSE width
  /\ last' = GetCode
  /\ UNCHANGED <<ToCome, mode>>

Next == SkipClear \/ First \/ FirstAgain \/ Stop \/ Clear \/ Expand

Spec == Init /\ [][Next]_vars
-----------------------------------------------------------------------------
Whole == \E restart \in Restarts : stream = Encode(text, restart)

\* "LZW decompression tailor made for TIFF": what the decoder gives is what was
\* encoded, as far as it has come, with room for it and without; it reports
\* success when it has all of it and nothing else, and each stream that was cut
\* short; and it writes to the members of its dictionary only.
DecodesTheText ==
  /\ out = SubSeq(text, 1, Len(out))
  /\ ~Running =>
       result = IF room < Len(text) /\ Len(out) = room THEN "out of memory"
                ELSE IF ~Whole THEN "no EOI"
                ELSE IF room = Len(text) THEN "success" ELSE "output mismatch"
  /\ DOMAIN dictionary \subseteq Entries
=============================================================================
