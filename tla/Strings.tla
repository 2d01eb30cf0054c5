------------------------------- MODULE Strings ------------------------------
(***************************************************************************)
(* lib/string.c.  Memory is an array mem of bytes; a string is the address *)
(* of its first byte and ends at the first byte 0.  A returned pointer is  *)
(* an address or NULL.                                                     *)
(***************************************************************************)
EXTENDS Integers, Sequences

NULL == -1

\* while (size-- > 0) *dst++ = *src++
RECURSIVE CopyUp(_, _, _, _)
CopyUp(mem, dst, src, size) ==
  IF size = 0 THEN mem
  ELSE CopyUp([mem EXCEPT ![dst] = mem[src]], dst + 1, src + 1, size - 1)
\* while (size-- > 0) *--dst = *--src
RECURSIVE CopyDown(_, _, _, _)
CopyDown(mem, dst, src, size) ==
  IF size = 0 THEN mem
  ELSE CopyDown([mem EXCEPT ![dst - 1] = mem[src - 1]], dst - 1, src - 1, size - 1)

memcpy(mem, dst, src, size) == CopyUp(mem, dst, src, size)

memmove(mem, dst, src, size) ==
  IF dst < src THEN CopyUp(mem, dst, src, size)
  ELSE CopyDown(mem, dst + size, src + size, size)

RECURSIVE memset(_, _, _, _)
memset(mem, dst, value, size) ==
  IF size = 0 THEN mem ELSE memset([mem EXCEPT ![dst] = value], dst + 1, value, size - 1)

RECURSIVE memcmp(_, _, _, _)
memcmp(mem, a, b, size) ==
  IF size = 0 THEN 0
  ELSE IF mem[a] # mem[b] THEN (IF mem[a] > mem[b] THEN 1 ELSE -1)
  ELSE memcmp(mem, a + 1, b + 1, size - 1)

RECURSIVE strcmp(_, _, _)
strcmp(mem, a, b) ==
  IF mem[a] # 0 /\ mem[a] = mem[b] THEN strcmp(mem, a + 1, b + 1)
  ELSE IF mem[a] < mem[b] THEN -1 ELSE IF mem[a] > mem[b] THEN 1 ELSE 0

RECURSIVE memchr(_, _, _, _)
memchr(mem, block, ch, size) ==
  IF size = 0 THEN NULL
  ELSE IF mem[block] = ch THEN block ELSE memchr(mem, block + 1, ch, size - 1)

RECURSIVE strchr(_, _, _)
strchr(mem, string, c) ==
  IF mem[string] = c THEN string
  ELSE IF mem[string] = 0 THEN NULL ELSE strchr(mem, string + 1, c)

RECURSIVE strcspn(_, _, _)
strcspn(mem, string, stop) ==
  IF mem[string] = 0 \/ strchr(mem, stop, mem[string]) # NULL THEN 0
  ELSE 1 + strcspn(mem, string + 1, stop)

RECURSIVE strpbrk(_, _, _)
strpbrk(mem, string, stop) ==
  IF mem[string] = 0 THEN NULL
  ELSE IF strchr(mem, stop, mem[string]) # NULL THEN string
  ELSE strpbrk(mem, string + 1, stop)

RECURSIVE LastMatch(_, _, _, _)
LastMatch(mem, string, c, p) ==
  IF mem[string] = 0 THEN p
  ELSE LastMatch(mem, string + 1, c, IF mem[string] = c THEN string ELSE p)
strrchr(mem, string, c) == LastMatch(mem, string, c, NULL)

RECURSIVE strspn(_, _, _)
strspn(mem, string, skip) ==
  IF mem[string] = 0 \/ strchr(mem, skip, mem[string]) = NULL THEN 0
  ELSE 1 + strspn(mem, string + 1, skip)

RECURSIVE strlen(_, _)
strlen(mem, string) == IF mem[string] = 0 THEN 0 ELSE 1 + strlen(mem, string + 1)

RECURSIVE strnlen(_, _, _)
strnlen(mem, string, maxlen) ==
  IF mem[string] = 0 \/ maxlen = 0 THEN 0 ELSE 1 + strnlen(mem, string + 1, maxlen - 1)

RECURSIVE Matching(_, _, _, _, _)
Matching(mem, haystack, needle, i, last) ==
  IF i > last THEN NULL
  ELSE IF memcmp(mem, haystack + i, needle, strlen(mem, needle)) = 0 THEN haystack + i
  ELSE Matching(mem, haystack, needle, i + 1, last)

strstr(mem, haystack, needle) ==
  Matching(mem, haystack, needle, 0, strlen(mem, haystack) - strlen(mem, needle))

\* The memory, the saved position and the token that strtok_r leaves; s is
\* the string or, for a null S, the saved position.
RECURSIVE SkipDelimiters(_, _, _)
SkipDelimiters(mem, s, delimiters) ==
  IF mem[s] # 0 /\ strchr(mem, delimiters, mem[s]) # NULL
  THEN SkipDelimiters(mem, s + 1, delimiters) ELSE s
RECURSIVE SkipToken(_, _, _)
SkipToken(mem, s, delimiters) ==
  IF strchr(mem, delimiters, mem[s]) = NULL THEN SkipToken(mem, s + 1, delimiters) ELSE s

strtok_r(mem, s, delimiters) ==
  LET token == SkipDelimiters(mem, s, delimiters)
      end   == SkipToken(mem, token, delimiters)
  IN  IF mem[token] = 0 THEN [mem |-> mem, save |-> token, token |-> NULL]
      ELSE IF mem[end] # 0
      THEN [mem |-> [mem EXCEPT ![end] = 0], save |-> end + 1, token |-> token]
      ELSE [mem |-> mem, save |-> end, token |-> token]

\* The memory and the result of strlcpy and of strlcat.
strlcpy(mem, dst, src, size) ==
  LET src_len == strlen(mem, src)
      dst_len == IF src_len < size - 1 THEN src_len ELSE size - 1
  IN  [mem |-> IF size = 0 THEN mem
               ELSE [memcpy(mem, dst, src, dst_len) EXCEPT ![dst + dst_len] = 0],
       ret |-> src_len]

strlcat(mem, dst, src, size) ==
  LET src_len  == strlen(mem, src)
      dst_len  == strlen(mem, dst)
      room     == size - dst_len - 1
      copy_cnt == IF src_len < room THEN src_len ELSE room
  IN  [mem |-> IF size = 0 \/ dst_len >= size THEN mem
               ELSE [memcpy(mem, dst + dst_len, src, copy_cnt)
                       EXCEPT ![dst + dst_len + copy_cnt] = 0],
       ret |-> src_len + dst_len]
=============================================================================
