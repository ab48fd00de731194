SPECIFICATION Spec
CONSTANTS
  Policies <- MCPolicies
  Attributes <- MCAttributes
  MaxPasses = 2
  MaxDrift = 1
INVARIANTS
  FileReports
  BackupKept
PROPERTIES
  WhatDestroys
  DryRunHarmless
