------------------------------ MODULE LogPages ------------------------------
(***************************************************************************)
(* The pages in which get_task_result returns a task's logs (mcp/logs.go): *)
(* one offset and one size for all of the sections, each cut at the starts *)
(* of its characters.  A section is the sequence of its bytes, and a byte  *)
(* says whether a character starts there; positions count from 0.          *)
(***************************************************************************)
EXTENDS Integers, Sequences, SequencesExt, FiniteSets, FiniteSetsExt

CONSTANTS
  DefaultLogBytes,  \* defaultLogBytes
  MaxLogBytes       \* maxLogBytes

ASSUME LogPagesAssumption ==
  DefaultLogBytes \in 1..MaxLogBytes /\ MaxLogBytes \in Nat

allSections == {"transcript", "stdout", "stderr", "diff", "verification"}
defaultSections == allSections \ {"stdout"}

Refused == [sections |-> {}, offset |-> -1, maxBytes |-> 0]

parseLogRequest(sections, offset, maxBytes) ==
  IF offset < 0 \/ maxBytes < 0 \/ maxBytes > MaxLogBytes \/ ~(sections \subseteq allSections)
  THEN Refused
  ELSE [sections |-> IF sections = {} THEN defaultSections ELSE sections,
        offset |-> offset,
        maxBytes |-> IF maxBytes = 0 THEN DefaultLogBytes ELSE maxBytes]

runeStart(s, i) ==
  IF i >= Len(s) THEN i ELSE Max({j \in 0..i : j = 0 \/ s[j + 1]})

(* window, as the positions it starts and ends at. *)
window(s, offset, max) ==
  LET start == runeStart(s, offset)
      end == runeStart(s, offset + max)
      next == Min({j \in (start + 1)..Len(s) : j = Len(s) \/ s[j + 1]})
  IN IF offset >= Len(s) THEN <<0, 0>>
     ELSE IF offset + max >= Len(s) THEN <<start, Len(s)>>
     ELSE IF end <= start THEN <<start, next>>
     ELSE <<start, end>>

(* Mistake: the next page starts after the last byte that was asked for. *)
nextOffsetPast(texts, req) ==
  IF \E n \in req.sections : Len(texts[n]) > req.offset + req.maxBytes
  THEN req.offset + req.maxBytes + 1 ELSE 0

(* pager.page and nextOffset: there is more while some section has more. *)
nextOffset(texts, req) ==
  IF \E n \in req.sections : Len(texts[n]) > req.offset + req.maxBytes
  THEN req.offset + req.maxBytes ELSE 0

-----------------------------------------------------------------------------
(* What is text: a character starts where it starts, and its bytes are at  *)
(* most four.                                                              *)
IsText(s) == \A i \in DOMAIN s : \E j \in (i - 3)..i : j \in DOMAIN s /\ s[j]

(* The offsets of a caller that asks for the next page until there is none. *)
Follow(texts, req) ==
  LET from[o \in Nat] ==
        LET next == nextOffset(texts, [req EXCEPT !.offset = o])
        IN IF next = 0 THEN <<o>> ELSE <<o>> \o from[next]
  IN from[0]

(* A caller that follows next_offset from the start reads every section to *)
(* its end and no character in two halves, whatever it asks for; if a page *)
(* holds the widest character, the pages put together are the section: no  *)
(* byte is missing and none comes twice (window: "consecutive pages fit    *)
(* together").                                                             *)
PagesFit(texts, sections, maxBytes) ==
  LET req == parseLogRequest(sections, 0, maxBytes)
      offsets == Follow(texts, req)
      page(n, k) == window(texts[n], offsets[k], req.maxBytes)
      whole(s, i) == i \in {0, Len(s)} \/ s[i + 1]
      times(n, b) == Cardinality({k \in DOMAIN offsets : page(n, k)[1] <= b /\ b < page(n, k)[2]})
      widest(s) == Max({0} \cup {w \in 1..4 : \E i \in 1..(Len(s) - w + 1) :
                     s[i] /\ \A j \in (i + 1)..(i + w - 1) : ~s[j]})
  IN req # Refused =>
       \A n \in req.sections :
         /\ \A k \in DOMAIN offsets : whole(texts[n], page(n, k)[1]) /\ whole(texts[n], page(n, k)[2])
         /\ \A b \in 0..(Len(texts[n]) - 1) : times(n, b) >= 1
         /\ req.maxBytes >= widest(texts[n]) =>
              \A b \in 0..(Len(texts[n]) - 1) : times(n, b) = 1

=============================================================================
