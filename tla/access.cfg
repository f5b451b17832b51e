SPECIFICATION Spec
CONSTANTS
  here = here
  g1 = g1  g2 = g2  o1 = o1  x1 = x1  u1 = u1  u2 = u2  l1 = l1  p1 = p1
  Registers = {g1, g2}
  Rotates = {o1}
  Revokes = {x1}
  Calls = {}
  Creates = {u1, u2}
  Logins = {l1}
  Panels = {p1}
  Emails = {e1}
  Addresses = {here}
  AddressOf <- MCAddressOf
  Bearers = {b1}
  Wallet <- MCWallet
  Limit = 2
  MaxMinute = 1
  MaxFaults = 1
  None = None
INVARIANTS
  TypeOK
  LimitHeld
  LateIsRefused
  KeyWorks
  OneTenantPerEmail
CHECK_DEADLOCK FALSE
